---- MODULE Spec2Model ----
(***************************************************************************)
(* Risk-signal extraction and scoring pipeline of Nanette:                 *)
(*   SafetyScorer        (analyzers/contract_analyzer/safety_scorer.py)    *)
(*   TokenomicsAnalyzer  (analyzers/contract_analyzer/tokenomics_analyzer) *)
(*   CreatorAnalyzer     (analyzers/contract_analyzer/creator_analyzer.py) *)
(*   InteractionAnalyzer (analyzers/contract_analyzer/interaction_analyzer)*)
(* Each component has its own specification (SpecScore, SpecTok,           *)
(* SpecTrust, SpecTrace, SpecGraph) over its own group of variables; the   *)
(* variables of the other components stay at their idle values.            *)
(***************************************************************************)
EXTENDS Integers, Sequences, FiniteSets, TLC

VARIABLES
    \* SafetyScorer.calculate_score
    analysis_results,   \* the dict handed to calculate_score
    scores,             \* the dict it returns
    score_pc,           \* "ready" | "done"
    \* TokenomicsAnalyzer (one shared instance)
    tok_source,         \* the source text of the pending analyze() call
    tok_self,           \* the instance fields self.warnings / self.red_flags
    tok_result,         \* the dict returned by the last analyze() call
    tok_calls,          \* number of analyze() calls made on the instance
    tok_heap,           \* the list objects created so far, by identity
    tok_refs,           \* the objects self.warnings / self.red_flags are bound to
    tok_returned,       \* per returned result, the objects its two lists are
    \* CreatorAnalyzer._calculate_creator_trust_score
    trust_in,           \* (deployer, siblings, red_flags)
    trust_out,          \* the returned trust-score dict
    trust_pc,           \* "ready" | "done"
    \* CreatorAnalyzer.analyze_creator
    world,              \* what the ChainDataProvider answers in this trace
    trace_pc,           \* position inside analyze_creator
    trace,              \* local variables of analyze_creator
    trace_result,       \* the result dict
    calls,              \* provider calls and pacing delays, in order
    \* InteractionAnalyzer
    graph_in,           \* center and the three transaction lists
    graph_pc,           \* position inside _build_graph / analyze_interactions
    cursor,             \* index of the next transaction of the current stream
    build,              \* the locals of _build_graph (edge_data, counters)
    graph,              \* the nx.DiGraph: nodes and edges with attributes
    patterns,           \* result of _detect_patterns
    top,                \* top_senders and top_receivers
    \* EVMAnalyzer._analyze_source_code
    scan_src,           \* the source text handed to the scanner
    scan_out,           \* the lists returned by the successive runs on scan_src
    \* AnalysisOrchestrator.analyze_contract
    chain,              \* what the ChainDataProvider answers in this analysis
    an_pc,              \* position inside analyze_contract
    base_analysis,      \* the dict built by EVMAnalyzer and enriched by the steps
    an_result,          \* the dict analyze_contract returns
    an_calls,           \* provider calls of this analysis, in order
    \* AnalysisOrchestrator.trace_creator / .analyze_interactions
    clock,              \* utcnow, in hours
    creator_rows,       \* the creator_analyses table
    interaction_rows,   \* the interaction_analyses table
    orch_req,           \* the request served last
    orch_result,        \* the dict returned for it
    orch_events,        \* analyzer runs and provider calls it started
    orch_n              \* number of requests served

scoreVars == <<analysis_results, scores, score_pc>>
tokVars   == <<tok_source, tok_self, tok_result, tok_calls, tok_heap, tok_refs,
               tok_returned>>
trustVars == <<trust_in, trust_out, trust_pc>>
traceVars == <<world, trace_pc, trace, trace_result, calls>>
graphVars == <<graph_in, graph_pc, cursor, build, graph, patterns, top>>
scanVars  == <<scan_src, scan_out>>
anVars    == <<chain, an_pc, base_analysis, an_result, an_calls>>
orchVars  == <<clock, creator_rows, interaction_rows, orch_req, orch_result,
               orch_events, orch_n>>
vars == <<scoreVars, tokVars, trustVars, traceVars, graphVars, scanVars, anVars,
          orchVars>>

----------------------------------------------------------------------------
(* Generic helpers *)

Min(a, b) == IF a <= b THEN a ELSE b
Max(a, b) == IF a >= b THEN a ELSE b

\* the sequences over S of length exactly n
SeqsOfLen(S, n) == [1..n -> S]

SeqsUpTo(S, n) == UNION {[1..k -> S] : k \in 0..n}

Range(s) == {s[i] : i \in 1..Len(s)}

\* number of indices of s whose element satisfies P
Count(s, P(_)) == Cardinality({i \in 1..Len(s) : P(s[i])})

RECURSIVE SumSeq(_)
SumSeq(s) == IF s = <<>> THEN 0 ELSE s[1] + SumSeq(Tail(s))

----------------------------------------------------------------------------
(* SafetyScorer *)

Severities == {"critical", "high", "medium", "low"}
VulnTypes  == {"reentrancy", "honeypot_pattern", "tx_origin"}
Signals    == [type : VulnTypes, severity : Severities]

\* a plausible slip: the table's medium entry carries the high deduction
deductions_MediumAsHigh(severity) ==
    CASE severity = "critical" -> 15
      [] severity = "high"     -> 10
      [] severity = "medium"   -> 10
      [] severity = "low"      -> 2
      [] OTHER                 -> 2

\* safety_scorer.py:107-116  deductions.get(severity, 2)
deductions(severity) ==
    CASE severity = "critical" -> 15
      [] severity = "high"     -> 10
      [] severity = "medium"   -> 5
      [] severity = "low"      -> 2
      [] OTHER                 -> 2

\* safety_scorer.py:114-116  the for loop, from index i on
RECURSIVE deduct_loop(_, _, _)
deduct_loop(vulnerabilities, i, score) ==
    IF i > Len(vulnerabilities) THEN score
    ELSE deduct_loop(vulnerabilities, i + 1,
                     score - deductions(vulnerabilities[i].severity))

\* safety_scorer.py:69-97
calculate_code_quality_score(analysis) ==
    LET code_quality == analysis.code_quality
        s0 == 0
        s1 == IF analysis.is_verified THEN s0 + 10 ELSE s0
        s2 == IF code_quality.modern_compiler THEN s1 + 5
              ELSE IF code_quality.compiler_version # "" THEN s1 + 3
              ELSE s1
        s3 == IF code_quality.optimization_enabled THEN s2 + 5 ELSE s2
        s4 == IF code_quality.license # "" /\ code_quality.license # "None"
              THEN s3 + 5 ELSE s3
    IN  IF code_quality.has_score THEN code_quality.score
        ELSE Min(s4, 25)

\* safety_scorer.py:99-131
calculate_security_score(analysis) ==
    LET vulnerabilities == analysis.vulnerabilities
        s0 == 40
        s1 == deduct_loop(vulnerabilities, 1, s0)
        vuln_types == {vulnerabilities[i].type : i \in 1..Len(vulnerabilities)}
        s2 == IF "reentrancy" \in vuln_types THEN s1 - 5 ELSE s1
        s3 == IF "honeypot_pattern" \in vuln_types THEN s2 - 10 ELSE s2
        s4 == IF Len(vulnerabilities) = 0 THEN 40 ELSE s3
    IN  Max(s4, 0)

\* safety_scorer.py:133-151
calculate_tokenomics_score(analysis) ==
    LET tokenomics == analysis.tokenomics
        s0 == 20
        s1 == s0 - Len(tokenomics.red_flags) * 4
        s2 == s1 - Len(tokenomics.warnings) * 2
    IN  IF tokenomics.has_score THEN tokenomics.score
        ELSE Max(s2, 0)

\* safety_scorer.py:153-183
calculate_liquidity_score(analysis) ==
    LET liquidity == analysis.liquidity
        lock_days == liquidity.lock_duration_days
        lock_percentage == liquidity.lock_percentage
        s1 == 10
        s2 == IF lock_days >= 365 THEN s1 + 3
              ELSE IF lock_days >= 180 THEN s1 + 2
              ELSE IF lock_days >= 90 THEN s1 + 1
              ELSE s1
        s3 == IF lock_percentage >= 90 THEN s2 + 2
              ELSE IF lock_percentage >= 70 THEN s2 + 1
              ELSE s2
        score == IF liquidity.is_locked THEN s3 ELSE 0
    IN  Min(score, 15)

\* a plausible slip: the first breakpoint typed as > instead of >=
determine_risk_level_Strict(overall_score) ==
    IF overall_score > 85 THEN "very_low"
    ELSE IF overall_score >= 70 THEN "low"
    ELSE IF overall_score >= 50 THEN "medium"
    ELSE IF overall_score >= 30 THEN "high"
    ELSE "critical"

\* safety_scorer.py:185-216 (the 'level' of the returned dict)
determine_risk_level(overall_score) ==
    IF overall_score >= 85 THEN "very_low"
    ELSE IF overall_score >= 70 THEN "low"
    ELSE IF overall_score >= 50 THEN "medium"
    ELSE IF overall_score >= 30 THEN "high"
    ELSE "critical"

\* safety_scorer.py:14-67
calculate_score(analysis) ==
    LET cq  == calculate_code_quality_score(analysis)
        sec == calculate_security_score(analysis)
        tok == calculate_tokenomics_score(analysis)
        liq == calculate_liquidity_score(analysis)
        overall == cq + sec + tok + liq
    IN  [code_quality_score |-> cq,
         security_score     |-> sec,
         tokenomics_score   |-> tok,
         liquidity_score    |-> liq,
         overall_score      |-> overall,
         risk_level         |-> determine_risk_level(overall)]

----------------------------------------------------------------------------
(* Inputs of calculate_score.  A missing section is the empty dict: every  *)
(* .get() on it yields its default, which is what the records below hold   *)
(* when present = FALSE.                                                   *)

MaxSignals == 2
MaxFlags   == 2

\* values a precomputed 'score' key may carry (in and out of the documented range)
PrecomputedCodeQuality == {-1, 0, 10, 25, 26}
PrecomputedTokenomics  == {-1, 0, 12, 20, 21}

EmptyCodeQuality ==
    [has_score |-> FALSE, score |-> 0, modern_compiler |-> FALSE,
     compiler_version |-> "", optimization_enabled |-> FALSE, license |-> ""]

CodeQualitySections ==
    {[EmptyCodeQuality EXCEPT !.has_score = TRUE, !.score = v] :
        v \in PrecomputedCodeQuality}
    \cup
    [has_score : {FALSE}, score : {0}, modern_compiler : BOOLEAN,
     compiler_version : {"", "v0.5.17"}, optimization_enabled : BOOLEAN,
     license : {"", "None", "MIT"}]

EmptyTokenomics ==
    [present |-> FALSE, has_score |-> FALSE, score |-> 0,
     red_flags |-> <<>>, warnings |-> <<>>]

TokenomicsSections ==
    {EmptyTokenomics}
    \cup {[EmptyTokenomics EXCEPT !.present = TRUE, !.has_score = TRUE, !.score = v] :
            v \in PrecomputedTokenomics}
    \cup {[EmptyTokenomics EXCEPT !.present = TRUE, !.red_flags = r, !.warnings = w] :
            r \in SeqsUpTo({"red flag"}, MaxFlags),
            w \in SeqsUpTo({"warning"}, MaxFlags)}

EmptyLiquidity ==
    [present |-> FALSE, is_locked |-> FALSE,
     lock_duration_days |-> 0, lock_percentage |-> 0]

LiquiditySections ==
    {EmptyLiquidity}
    \cup [present : {TRUE}, is_locked : BOOLEAN,
          lock_duration_days : {0, 89, 90, 180, 365},
          lock_percentage : {0, 69, 70, 90, 100}]

VulnerabilityLists == SeqsUpTo(Signals, MaxSignals)

\* the sections at their two extremes, combined with every value of one section
BestCodeQuality ==
    [EmptyCodeQuality EXCEPT !.modern_compiler = TRUE, !.compiler_version = "v0.8.19",
                             !.optimization_enabled = TRUE, !.license = "MIT"]
WorstVulnerabilities ==
    << [type |-> "reentrancy", severity |-> "critical"],
       [type |-> "honeypot_pattern", severity |-> "critical"] >>
BestLiquidity ==
    [present |-> TRUE, is_locked |-> TRUE,
     lock_duration_days |-> 365, lock_percentage |-> 100]

CoarseCodeQuality   == {<<FALSE, EmptyCodeQuality>>, <<TRUE, BestCodeQuality>>}
CoarseVulnerability == {<<>>, WorstVulnerabilities}
CoarseTokenomics    == {EmptyTokenomics,
                        [EmptyTokenomics EXCEPT !.present = TRUE,
                             !.red_flags = <<"red flag", "red flag">>]}
CoarseLiquidity     == {EmptyLiquidity, BestLiquidity}

MkAnalysis(cq, vu, tk, lq) ==
    [is_verified |-> cq[1], code_quality |-> cq[2], vulnerabilities |-> vu,
     tokenomics |-> tk, liquidity |-> lq]

ScoreInputs ==
    {MkAnalysis(cq, vu, tk, lq) :
        cq \in BOOLEAN \X CodeQualitySections, vu \in CoarseVulnerability,
        tk \in CoarseTokenomics, lq \in CoarseLiquidity}
    \cup {MkAnalysis(cq, vu, tk, lq) :
        cq \in CoarseCodeQuality, vu \in VulnerabilityLists,
        tk \in CoarseTokenomics, lq \in CoarseLiquidity}
    \cup {MkAnalysis(cq, vu, tk, lq) :
        cq \in CoarseCodeQuality, vu \in CoarseVulnerability,
        tk \in TokenomicsSections, lq \in CoarseLiquidity}
    \cup {MkAnalysis(cq, vu, tk, lq) :
        cq \in CoarseCodeQuality, vu \in CoarseVulnerability,
        tk \in CoarseTokenomics, lq \in LiquiditySections}

NoScores ==
    [code_quality_score |-> 0, security_score |-> 0, tokenomics_score |-> 0,
     liquidity_score |-> 0, overall_score |-> 0, risk_level |-> "unknown"]

ScoreInit ==
    /\ analysis_results \in ScoreInputs
    /\ scores = NoScores
    /\ score_pc = "ready"

ScoreIdle ==
    /\ analysis_results = MkAnalysis(<<FALSE, EmptyCodeQuality>>, <<>>,
                                     EmptyTokenomics, EmptyLiquidity)
    /\ scores = NoScores
    /\ score_pc = "idle"

\* SafetyScorer.calculate_score(analysis_results)
CalculateScore ==
    /\ score_pc = "ready"
    /\ scores' = calculate_score(analysis_results)
    /\ score_pc' = "done"
    /\ UNCHANGED analysis_results

----------------------------------------------------------------------------
(* CreatorAnalyzer._calculate_creator_trust_score *)

\* time.time() at the moment of the call, Unix seconds
Now == 1800000000
DAY == 86400

\* a plausible slip: halves always rounded up
py_round_HalfUp(num, den) == (2 * num + den) \div (2 * den)

\* Python's round() of the quotient num / den (den > 0): nearest integer,
\* a tie going to the even neighbour
py_round(num, den) ==
    LET f == num \div den
        r == num % den
    IN  IF 2 * r > den THEN f + 1
        ELSE IF 2 * r < den THEN f
        ELSE IF f % 2 = 0 THEN f ELSE f + 1

\* Python's sorted() on a list of integers (insertion into a sorted list)
RECURSIVE insert_sorted(_, _)
insert_sorted(x, s) ==
    IF s = <<>> THEN <<x>>
    ELSE IF x <= s[1] THEN <<x>> \o s
    ELSE <<s[1]>> \o insert_sorted(x, Tail(s))

RECURSIVE sorted(_)
sorted(s) == IF s = <<>> THEN <<>> ELSE insert_sorted(s[1], sorted(Tail(s)))

\* the sub-list of the elements of s satisfying P, in order
Filter(s, P(_)) == SelectSeq(s, P)

Map(s, F(_)) == [i \in 1..Len(s) |-> F(s[i])]

\* creator_analyzer.py:391-401
wallet_maturity(deployer) ==
    LET age_days == deployer.wallet_age_days
    IN  IF age_days > 365 THEN 20
        ELSE IF age_days > 180 THEN 15
        ELSE IF age_days > 30 THEN 10
        ELSE IF age_days > 7 THEN 5
        ELSE 0

\* s.get('lifespan_days', default)
lifespan_or(s, default) == IF s.has_lifespan THEN s.lifespan_days ELSE default

\* creator_analyzer.py:403-427
deployment_history(siblings) ==
    LET h0 == 30
        dead_count == Count(siblings, LAMBDA s : ~s.is_alive)
        h1 == h0 - Min(15, dead_count * 3)
        recent_siblings == Count(siblings, LAMBDA s : s.creation_ts > Now - (30 * DAY))
        h2 == IF Len(siblings) > 5 /\ recent_siblings > 5 THEN h1 - 5 ELSE h1
        lifespans == Map(Filter(siblings, LAMBDA s : lifespan_or(s, 0) # 0),
                         LAMBDA s : lifespan_or(s, 0))
        \* sum(lifespans) / len(lifespans) < 7
        h3 == IF Len(lifespans) > 0 /\ SumSeq(lifespans) < 7 * Len(lifespans)
              THEN h2 - 5 ELSE h2
        long_lived == Count(siblings, LAMBDA s : s.is_alive /\ lifespan_or(s, 0) > 180)
        h4 == IF long_lived > 0 THEN Min(30, h3 + 5) ELSE h3
    IN  Max(0, h4)

\* creator_analyzer.py:429-439
sibling_survival(siblings) ==
    IF Len(siblings) = 0 THEN 15
    ELSE LET alive_count == Count(siblings, LAMBDA s : s.is_alive)
             v0 == py_round(alive_count * 25, Len(siblings))
             lp_removals == Count(siblings, LAMBDA s : s.had_liquidity_removal)
             v1 == v0 - Min(15, lp_removals * 5)
         IN  Max(0, v1)

\* creator_analyzer.py:443-451  the for loop over red_flags, from index i on
RECURSIVE transparency_loop(_, _, _)
transparency_loop(red_flags, i, transparency) ==
    IF i > Len(red_flags) THEN transparency
    ELSE LET t == red_flags[i].type
             d == IF t = "mixer_funding" THEN 15
                  ELSE IF t = "brand_new_wallet" THEN 10
                  ELSE IF t = "very_new_wallet" THEN 5
                  ELSE IF t = "no_history" THEN 10
                  ELSE 0
         IN  transparency_loop(red_flags, i + 1, transparency - d)

\* a plausible slip: the max(0, ...) of line 452 left out
funding_transparency_NoFloor(red_flags) == transparency_loop(red_flags, 1, 15)

\* creator_analyzer.py:441-452
funding_transparency(red_flags) == Max(0, transparency_loop(red_flags, 1, 15))

\* creator_analyzer.py:468-470  number of neighbouring timestamps < 24h apart
rapid_deploys(timestamps) ==
    Cardinality({i \in 2..Len(timestamps) : timestamps[i] - timestamps[i-1] < DAY})

\* creator_analyzer.py:454-474
behavioral_patterns(siblings) ==
    LET b0 == 10
        drain_count == Count(siblings,
                             LAMBDA s : s.had_liquidity_removal /\ lifespan_or(s, 999) < 14)
        b1 == IF drain_count > 0 THEN b0 - Min(5, drain_count * 2) ELSE b0
        timestamps == sorted(Map(Filter(siblings, LAMBDA s : s.creation_ts # 0),
                                 LAMBDA s : s.creation_ts))
        b2 == IF Len(siblings) >= 3 /\ rapid_deploys(timestamps) >= 3
              THEN b1 - 5 ELSE b1
    IN  Max(0, b2)

\* creator_analyzer.py:478
clamp_total(total) == Max(0, Min(100, total))

\* creator_analyzer.py:480-490
creator_risk_level(total) ==
    IF total >= 85 THEN "very_low"
    ELSE IF total >= 70 THEN "low"
    ELSE IF total >= 50 THEN "medium"
    ELSE IF total >= 30 THEN "high"
    ELSE "critical"

\* creator_analyzer.py:376-523
calculate_creator_trust_score(deployer, siblings, red_flags) ==
    LET maturity     == wallet_maturity(deployer)
        history      == deployment_history(siblings)
        survival     == sibling_survival(siblings)
        transparency == funding_transparency(red_flags)
        behavior     == behavioral_patterns(siblings)
        total        == clamp_total(maturity + history + survival + transparency + behavior)
    IN  [overall_score               |-> total,
         risk_level                  |-> creator_risk_level(total),
         wallet_maturity_score       |-> maturity,
         deployment_history_score    |-> history,
         sibling_survival_score      |-> survival,
         funding_transparency_score  |-> transparency,
         behavioral_patterns_score   |-> behavior]

(* Inputs of _calculate_creator_trust_score *)

MaxSiblings  == 2    \* length of the freely mixed sibling lists
MaxUniform   == 7    \* length of the lists of equal siblings
MaxRedFlags  == 2

WalletAges == {-1, 0, 7, 8, 30, 31, 180, 181, 365, 366}
RedFlagTypes == {"mixer_funding", "brand_new_wallet", "very_new_wallet",
                 "no_history", "other"}
RedFlagLists == SeqsUpTo([type : RedFlagTypes], MaxRedFlags)

RecentTs == Now - 3600
OldTs    == Now - (400 * DAY)

SiblingRecords(tss) ==
    [is_alive : BOOLEAN, had_liquidity_removal : BOOLEAN,
     has_lifespan : {TRUE}, lifespan_days : {0, 5, 200}, creation_ts : tss]
    \cup [is_alive : BOOLEAN, had_liquidity_removal : BOOLEAN,
          has_lifespan : {FALSE}, lifespan_days : {0}, creation_ts : tss]

UniformSiblingLists ==
    {[i \in 1..n |-> s] : n \in 0..MaxUniform, s \in SiblingRecords({0, RecentTs, OldTs})}

CoarseAges == {0, 366}
CoarseRedFlags == {<<>>, <<[type |-> "mixer_funding"]>>}
CoarseSiblings == {<<>>, [i \in 1..3 |-> [is_alive |-> TRUE, had_liquidity_removal |-> FALSE,
                                          has_lifespan |-> TRUE, lifespan_days |-> 200,
                                          creation_ts |-> OldTs]]}

MaxSpaced == 4      \* length of the lists of siblings deployed at regular intervals

\* siblings deployed one after the other, `gap` seconds apart
SpacedSiblingLists ==
    {[i \in 1..n |-> [is_alive |-> TRUE, had_liquidity_removal |-> lp,
                      has_lifespan |-> TRUE, lifespan_days |-> days,
                      creation_ts |-> Now - (i * gap)]] :
        n \in 0..MaxSpaced, lp \in BOOLEAN, days \in {0, 5, 200},
        gap \in {3600, DAY, 2 * DAY}}

MkTrustIn(age, sibs, flags) ==
    [deployer |-> [wallet_age_days |-> age], siblings |-> sibs, red_flags |-> flags]

\* every short list of siblings; every age with lists of equal siblings; every
\* age with every list of red flags
TrustInputs(x) ==
    \/ \E a \in CoarseAges, f \in CoarseRedFlags, k \in 0..MaxSiblings :
          \E s \in SeqsOfLen(SiblingRecords({0, RecentTs}), k) : x = MkTrustIn(a, s, f)
    \/ \E a \in WalletAges, s \in UniformSiblingLists, f \in CoarseRedFlags :
          x = MkTrustIn(a, s, f)
    \/ \E a \in WalletAges, s \in CoarseSiblings, f \in RedFlagLists :
          x = MkTrustIn(a, s, f)
    \/ \E a \in CoarseAges, s \in SpacedSiblingLists : x = MkTrustIn(a, s, <<>>)

NoTrust ==
    [overall_score |-> 0, risk_level |-> "unknown", wallet_maturity_score |-> 0,
     deployment_history_score |-> 0, sibling_survival_score |-> 0,
     funding_transparency_score |-> 0, behavioral_patterns_score |-> 0]

TrustInit ==
    /\ TrustInputs(trust_in)
    /\ trust_out = NoTrust
    /\ trust_pc = "ready"

TrustIdle ==
    /\ trust_in = MkTrustIn(0, <<>>, <<>>)
    /\ trust_out = NoTrust
    /\ trust_pc = "idle"

\* CreatorAnalyzer._calculate_creator_trust_score(deployer, siblings, red_flags)
CalculateCreatorTrustScore ==
    /\ trust_pc = "ready"
    /\ trust_out' = calculate_creator_trust_score(trust_in.deployer, trust_in.siblings,
                                                  trust_in.red_flags)
    /\ trust_pc' = "done"
    /\ UNCHANGED trust_in

----------------------------------------------------------------------------
(* TokenomicsAnalyzer.  The source text is held as what the analyzer's     *)
(* regular expressions can see of it: the fee-like assignments `name = N`  *)
(* in source order, and which of the keyword patterns occur.               *)

\* an item of self.warnings / self.red_flags; the f-string of
\* tokenomics_analyzer.py:116 carries the fee name and value
Msg(text) == [text |-> text, fee_name |-> "", fee_value |-> 0]
ExcessiveMsg(fee_name, fee_value) ==
    [text |-> "Excessive", fee_name |-> fee_name, fee_value |-> fee_value]

\* an optional value: <<>> is None, <<v>> is v
None == <<>>
Some(v) == <<v>>
\* x or 0
or_zero(x) == IF x = None THEN 0 ELSE x[1]

\* tokenomics_analyzer.py:94-99  which fee_patterns[k] match an assignment's name
matches_fee_pattern(k, name) ==
    CASE k = 1 -> name \in {"buyFee"}
      [] k = 2 -> name \in {"sellFee"}
      [] k = 3 -> name \in {"transferFee"}
      [] k = 4 -> name \in {"buyTax", "marketingTax"}

\* match.group(1).lower()
lower_name(name) ==
    CASE name = "buyFee" -> "buyfee"
      [] name = "sellFee" -> "sellfee"
      [] name = "transferFee" -> "transferfee"
      [] name = "buyTax" -> "buytax"
      [] name = "marketingTax" -> "marketingtax"

\* 'buy' in fee_name, 'sell' in fee_name, 'transfer' in fee_name
has_substring(sub, fee_name) ==
    CASE sub = "buy"      -> fee_name \in {"buyfee", "buytax"}
      [] sub = "sell"     -> fee_name \in {"sellfee"}
      [] sub = "transfer" -> fee_name \in {"transferfee"}

\* tokenomics_analyzer.py:103-116  one match of one pattern
fee_match(st, a) ==
    LET fee_name == lower_name(a.name)
        fee_value == a.value
        fees1 == IF has_substring("buy", fee_name)
                   THEN [st.fees EXCEPT !.buy_fee = Some(fee_value)]
                 ELSE IF has_substring("sell", fee_name)
                   THEN [st.fees EXCEPT !.sell_fee = Some(fee_value)]
                 ELSE IF has_substring("transfer", fee_name)
                   THEN [st.fees EXCEPT !.transfer_fee = Some(fee_value)]
                 ELSE st.fees
        red1 == IF fee_value > 1000
                THEN Append(st.red_flags, ExcessiveMsg(fee_name, fee_value))
                ELSE st.red_flags
    IN  [fees |-> fees1, red_flags |-> red1]

\* tokenomics_analyzer.py:101-116  re.finditer over the source for pattern k, from
\* assignment i on
RECURSIVE fee_matches(_, _, _, _)
fee_matches(st, assignments, k, i) ==
    IF i > Len(assignments) THEN st
    ELSE fee_matches(IF matches_fee_pattern(k, assignments[i].name)
                     THEN fee_match(st, assignments[i]) ELSE st,
                     assignments, k, i + 1)

\* tokenomics_analyzer.py:101  for pattern in fee_patterns, from pattern k on
RECURSIVE fee_patterns_loop(_, _, _)
fee_patterns_loop(st, assignments, k) ==
    IF k > 4 THEN st
    ELSE fee_patterns_loop(fee_matches(st, assignments, k, 1), assignments, k + 1)

\* tokenomics_analyzer.py:84-124   self is [warnings, red_flags]
analyze_fees(self, source_code) ==
    LET fees0 == [buy_fee |-> None, sell_fee |-> None, transfer_fee |-> None,
                  is_modifiable |-> FALSE]
        st == fee_patterns_loop([fees |-> fees0, red_flags |-> self.red_flags],
                                source_code.assignments, 1)
    IN  IF source_code.set_fee_function
        THEN [ret  |-> [st.fees EXCEPT !.is_modifiable = TRUE],
              self |-> [warnings  |-> Append(self.warnings,
                                             Msg("Fees can be modified by owner")),
                        red_flags |-> st.red_flags]]
        ELSE [ret  |-> st.fees,
              self |-> [self EXCEPT !.red_flags = st.red_flags]]

\* tokenomics_analyzer.py:126-138
check_burn_mechanism(self, source_code) ==
    [ret |-> source_code.burn, self |-> self]

\* tokenomics_analyzer.py:140-162
check_mint_mechanism(self, source_code) ==
    LET has_mint == source_code.mint
    IN  IF has_mint
        THEN IF ~source_code.access_control
             THEN [ret |-> has_mint,
                   self |-> [self EXCEPT !.red_flags = Append(@,
                       Msg("Mint function may lack proper access control"))]]
             ELSE [ret |-> has_mint,
                   self |-> [self EXCEPT !.warnings = Append(@,
                       Msg("Contract has mint function (can increase supply)"))]]
        ELSE [ret |-> has_mint, self |-> self]

\* tokenomics_analyzer.py:164-177
check_pausable(self, source_code) ==
    IF source_code.pause
    THEN [ret |-> TRUE,
          self |-> [self EXCEPT !.warnings = Append(@,
              Msg("Contract can be paused, halting all transfers"))]]
    ELSE [ret |-> FALSE, self |-> self]

\* tokenomics_analyzer.py:179-194
check_blacklist(self, source_code) ==
    IF source_code.blacklist
    THEN [ret |-> TRUE,
          self |-> [self EXCEPT !.red_flags = Append(@,
              Msg("Contract has blacklist mechanism - users can be blocked from trading"))]]
    ELSE [ret |-> FALSE, self |-> self]

\* tokenomics_analyzer.py:196-219
check_max_tx_limit(self, source_code) ==
    LET has_max_tx == source_code.max_tx
    IN  IF has_max_tx
        THEN [ret |-> TRUE,
              self |-> IF source_code.set_max_function
                       THEN [self EXCEPT !.warnings = Append(@,
                           Msg("Maximum transaction limit can be modified by owner"))]
                       ELSE self]
        ELSE [ret |-> FALSE, self |-> self]

\* tokenomics_analyzer.py:221-236
check_cooldown(self, source_code) ==
    IF source_code.cooldown
    THEN [ret |-> TRUE,
          self |-> [self EXCEPT !.warnings = Append(@,
              Msg("Contract has cooldown mechanism between trades"))]]
    ELSE [ret |-> FALSE, self |-> self]

\* a plausible slip: the <= 5% tier tests only the buy fee
fee_tier_BuyOnly(buy_fee, sell_fee) ==
    IF buy_fee <= 500 THEN 5
    ELSE IF buy_fee <= 1000 /\ sell_fee <= 1000 THEN 3
    ELSE IF buy_fee <= 1500 /\ sell_fee <= 1500 THEN 1
    ELSE 0

\* tokenomics_analyzer.py:258-263
fee_tier(buy_fee, sell_fee) ==
    IF buy_fee <= 500 /\ sell_fee <= 500 THEN 5
    ELSE IF buy_fee <= 1000 /\ sell_fee <= 1000 THEN 3
    ELSE IF buy_fee <= 1500 /\ sell_fee <= 1500 THEN 1
    ELSE 0

\* tokenomics_analyzer.py:238-291   (the module's own, not SafetyScorer's)
analyzer_tokenomics_score(self, analysis) ==
    LET fees == analysis.fees
        buy_fee == or_zero(fees.buy_fee)
        sell_fee == or_zero(fees.sell_fee)
        s1 == fee_tier(buy_fee, sell_fee)
        s2 == IF ~fees.is_modifiable THEN s1 + 3 ELSE s1 + 1
        s3 == IF ~analysis.blacklist_mechanism THEN s2 + 4 ELSE s2
        s4 == IF ~analysis.mint_mechanism THEN s3 + 4
              ELSE IF Msg("Mint function may lack proper access control")
                          \notin Range(self.red_flags) THEN s3 + 2
              ELSE s3
        s5 == IF ~analysis.max_transaction_limit THEN s4 + 2
              ELSE IF Msg("Maximum transaction limit can be modified")
                          \notin Range(self.warnings) THEN s4 + 1
              ELSE s4
        s6 == IF ~analysis.pausable THEN s5 + 2 ELSE s5
    IN  Min(s6, 20)

\* tokenomics_analyzer.py:16-82   returns the result dict and the instance fields
analyze(self, source_code) ==
    LET self0 == [self EXCEPT !.warnings = <<>>, !.red_flags = <<>>]
        r1 == analyze_fees(self0, source_code)
        r2 == check_burn_mechanism(r1.self, source_code)
        r3 == check_mint_mechanism(r2.self, source_code)
        r4 == check_pausable(r3.self, source_code)
        r5 == check_blacklist(r4.self, source_code)
        r6 == check_max_tx_limit(r5.self, source_code)
        r7 == check_cooldown(r6.self, source_code)
        self7 == r7.self
        result == [fees |-> r1.ret, burn_mechanism |-> r2.ret, mint_mechanism |-> r3.ret,
                   pausable |-> r4.ret, blacklist_mechanism |-> r5.ret,
                   max_transaction_limit |-> r6.ret, cooldown_mechanism |-> r7.ret,
                   score |-> 0, warnings |-> <<>>, red_flags |-> <<>>]
    IN  [self   |-> self7,
         result |-> [result EXCEPT !.score = analyzer_tokenomics_score(self7, result),
                                   !.warnings = self7.warnings,
                                   !.red_flags = self7.red_flags]]

(* Inputs of analyze() *)

MaxFees     == 2    \* fee assignments in one source text
MaxTokCalls == 2    \* analyze() calls on the shared instance

FeeValues == {300, 400, 500, 501, 1000, 1001, 1500, 1501}
FeeAssignments ==
    [name : {"buyFee", "sellFee"}, value : FeeValues]
    \cup [name : {"buyTax", "marketingTax", "transferFee"}, value : {400, 1001}]

KeywordSets ==
    [set_fee_function : BOOLEAN, burn : BOOLEAN, mint : BOOLEAN,
     access_control : BOOLEAN, pause : BOOLEAN, blacklist : BOOLEAN,
     max_tx : BOOLEAN, set_max_function : BOOLEAN, cooldown : BOOLEAN]

NoKeywords ==
    [set_fee_function |-> FALSE, burn |-> FALSE, mint |-> FALSE,
     access_control |-> FALSE, pause |-> FALSE, blacklist |-> FALSE,
     max_tx |-> FALSE, set_max_function |-> FALSE, cooldown |-> FALSE]
AllKeywords ==
    [set_fee_function |-> TRUE, burn |-> TRUE, mint |-> TRUE,
     access_control |-> TRUE, pause |-> TRUE, blacklist |-> TRUE,
     max_tx |-> TRUE, set_max_function |-> TRUE, cooldown |-> TRUE]

CoarseKeywords == {NoKeywords, AllKeywords}
CoarseFees == {<<>>,
               <<[name |-> "buyFee", value |-> 300], [name |-> "sellFee", value |-> 400]>>,
               <<[name |-> "sellFee", value |-> 1501]>>}

MkSource(assignments, kw) ==
    [assignments |-> assignments,
     set_fee_function |-> kw.set_fee_function, burn |-> kw.burn, mint |-> kw.mint,
     access_control |-> kw.access_control, pause |-> kw.pause,
     blacklist |-> kw.blacklist, max_tx |-> kw.max_tx,
     set_max_function |-> kw.set_max_function, cooldown |-> kw.cooldown]

TokSources ==
    {MkSource(a, kw) : a \in SeqsUpTo(FeeAssignments, MaxFees), kw \in CoarseKeywords}
    \cup {MkSource(a, kw) : a \in CoarseFees, kw \in KeywordSets}

FollowUpSources == {MkSource(a, kw) : a \in CoarseFees, kw \in CoarseKeywords}

NoTokResult ==
    [fees |-> [buy_fee |-> None, sell_fee |-> None, transfer_fee |-> None,
               is_modifiable |-> FALSE],
     burn_mechanism |-> FALSE, mint_mechanism |-> FALSE, pausable |-> FALSE,
     blacklist_mechanism |-> FALSE, max_transaction_limit |-> FALSE,
     cooldown_mechanism |-> FALSE, score |-> 0, warnings |-> <<>>, red_flags |-> <<>>]

\* TokenomicsAnalyzer.__init__ (tokenomics_analyzer.py:12-14) and the first source
TokInit ==
    /\ tok_source \in TokSources
    /\ tok_self = [warnings |-> <<>>, red_flags |-> <<>>]
    /\ tok_result = NoTokResult
    /\ tok_calls = 0
    /\ tok_heap = << <<>>, <<>> >>
    /\ tok_refs = [warnings |-> 1, red_flags |-> 2]
    /\ tok_returned = <<>>

TokIdle ==
    /\ tok_source = MkSource(<<>>, NoKeywords)
    /\ tok_self = [warnings |-> <<>>, red_flags |-> <<>>]
    /\ tok_result = NoTokResult
    /\ tok_calls = 0
    /\ tok_heap = << <<>>, <<>> >>
    /\ tok_refs = [warnings |-> 1, red_flags |-> 2]
    /\ tok_returned = <<>>

\* list.clear() in place of a new list: the instance keeps its two objects
fresh_lists_ClearInPlace(heap, refs) == refs

\* tokenomics_analyzer.py:45-46  self.warnings = [] ; self.red_flags = []
\* bind the fields to two new list objects
fresh_lists(heap, refs) == [warnings |-> Len(heap) + 1, red_flags |-> Len(heap) + 2]

\* the heap once object `id` holds `list`
store(heap, id, list) ==
    IF id <= Len(heap) THEN [heap EXCEPT ![id] = list] ELSE Append(heap, list)

\* TokenomicsAnalyzer.analyze(tok_source, token_info); the caller then holds the
\* source text of its next request.  result['warnings'] and result['red_flags']
\* are the objects the fields are bound to (lines 79-80).
Analyze ==
    /\ tok_calls < MaxTokCalls
    /\ LET r    == analyze(tok_self, tok_source)
           refs == fresh_lists(tok_heap, tok_refs)
       IN  /\ tok_self' = r.self
           /\ tok_result' = r.result
           /\ tok_refs' = refs
           /\ tok_heap' = store(store(tok_heap, refs.warnings, r.self.warnings),
                                refs.red_flags, r.self.red_flags)
           /\ tok_returned' = Append(tok_returned, refs)
    /\ tok_calls' = tok_calls + 1
    /\ \E next \in FollowUpSources :
          tok_source' = IF tok_calls + 1 < MaxTokCalls THEN next ELSE tok_source

----------------------------------------------------------------------------
(* InteractionAnalyzer: _build_graph and _detect_patterns.                 *)
(* Addresses are short stand-ins for 20-byte hex addresses; "0xAA" and     *)
(* "0xBB" are the mixed-case (checksummed) spellings of "0xaa" and "0xbb". *)
(* Values are integers in the chain's minor unit.                          *)

NULL_ADDR == "0x0000"
DEAD_ADDR == "0x0dead"
ROUTER    == "0x7a25"

\* str.lower() on an address
lower(addr) ==
    CASE addr = "0xAA" -> "0xaa"
      [] addr = "0xBB" -> "0xbb"
      [] addr = "0xCC" -> "0xcc"
      [] OTHER -> addr

\* interaction_analyzer.py:13-39  KNOWN_ADDRESSES[blockchain].get(addr, "")
known_label(addr) ==
    CASE addr = NULL_ADDR -> "Null Address"
      [] addr = DEAD_ADDR -> "Burn Address"
      [] addr = ROUTER    -> "Uniswap V2 Router"
      [] OTHER -> ""

\* interaction_analyzer.py:438-442; the stand-ins have at most 10 characters
shorten_address(address) == address

\* interaction_analyzer.py:295-296  any(dex in label.lower() for dex in [...])
is_dex_label(label) == label \in {"Uniswap V2 Router"}

NoEntry == [count |-> 0, total_value |-> 0, types |-> {}]

\* edge_data[edge_key] of the defaultdict (interaction_analyzer.py:123)
entry(b, edge_key) ==
    IF edge_key \in DOMAIN b.edge_data THEN b.edge_data[edge_key] ELSE NoEntry

\* storing edge_data[edge_key]; a new key goes to the end of the dict's order
put(b, edge_key, e) ==
    [b EXCEPT !.edge_data = (edge_key :> e) @@ b.edge_data,
              !.order = IF edge_key \in DOMAIN b.edge_data THEN @ ELSE Append(@, edge_key)]

\* interaction_analyzer.py:126-141  one iteration of the loop over normal_txns
process_normal(b, tx, center) ==
    LET from_addr == lower(tx.from)
        to_addr   == lower(tx.to)
        edge_key  == <<from_addr, to_addr>>
        e  == entry(b, edge_key)
        b1 == put(b, edge_key, [count |-> e.count + 1,
                                total_value |-> e.total_value + tx.value,
                                types |-> e.types \cup {"normal"}])
    IN  IF from_addr = "" \/ to_addr = "" THEN b
        ELSE [b1 EXCEPT !.total_value_in  = IF to_addr = center THEN @ + tx.value ELSE @,
                        !.total_value_out = IF from_addr = center THEN @ + tx.value ELSE @]

\* interaction_analyzer.py:145-156  one iteration of the loop over internal_txns
process_internal(b, tx) ==
    LET from_addr == lower(tx.from)
        to_addr   == lower(tx.to)
        edge_key  == <<from_addr, to_addr>>
        e  == entry(b, edge_key)
        b1 == put(b, edge_key, [count |-> e.count + 1,
                                total_value |-> e.total_value + tx.value,
                                types |-> e.types \cup {"internal"}])
    IN  IF from_addr = "" \/ to_addr = "" THEN b
        ELSE [b1 EXCEPT !.internal_count = @ + 1]

\* a plausible slip: the token loop copied from the internal one, value included
process_token_WithValue(b, tx) ==
    LET from_addr == lower(tx.from)
        to_addr   == lower(tx.to)
        edge_key  == <<from_addr, to_addr>>
        e  == entry(b, edge_key)
        b1 == put(b, edge_key, [count |-> e.count + 1,
                                total_value |-> e.total_value + tx.value,
                                types |-> e.types \cup {"token"}])
    IN  IF from_addr = "" \/ to_addr = "" THEN b
        ELSE [b1 EXCEPT !.token_transfer_count = @ + 1]

\* interaction_analyzer.py:160-169  one iteration of the loop over token_txns
process_token(b, tx) ==
    LET from_addr == lower(tx.from)
        to_addr   == lower(tx.to)
        edge_key  == <<from_addr, to_addr>>
        e  == entry(b, edge_key)
        b1 == put(b, edge_key, [e EXCEPT !.count = @ + 1,
                                         !.types = @ \cup {"token"}])
    IN  IF from_addr = "" \/ to_addr = "" THEN b
        ELSE [b1 EXCEPT !.token_transfer_count = @ + 1]

\* nx.DiGraph.add_edge: the end points become nodes, in this order, if they are not yet
RECURSIVE add_edges(_, _, _)
add_edges(node_order, order, i) ==
    IF i > Len(order) THEN node_order
    ELSE LET u  == order[i][1]
             v  == order[i][2]
             n1 == IF u \in Range(node_order) THEN node_order ELSE Append(node_order, u)
             n2 == IF v \in Range(n1) THEN n1 ELSE Append(n1, v)
         IN  add_edges(n2, order, i + 1)

\* nx.DiGraph.degree(addr): in-degree plus out-degree
degree(edges, addr) ==
    Cardinality({k \in edges : k[1] = addr}) + Cardinality({k \in edges : k[2] = addr})

\* a plausible change: the center is added to the address set before labelling
all_addresses_WithCenter(b, center) ==
    {k[1] : k \in DOMAIN b.edge_data} \cup {k[2] : k \in DOMAIN b.edge_data} \cup {center}

\* interaction_analyzer.py:173-177  the end points of the edges
all_addresses(b, center) ==
    {k[1] : k \in DOMAIN b.edge_data} \cup {k[2] : k \in DOMAIN b.edge_data}

\* interaction_analyzer.py:171-210  nodes, edges and stats from edge_data
build_nodes_and_edges(b, center, n_normal, n_internal, n_token) ==
    LET addrs == all_addresses(b, center)
        from_edges == add_edges(<<>>, b.order, 1)
        extra == addrs \ Range(from_edges)
        \* graph.add_node on an address that is not yet a node adds it
        node_order == from_edges \o
                      (IF extra = {} THEN <<>> ELSE <<CHOOSE a \in extra : TRUE>>)
        edges == [k \in DOMAIN b.edge_data |->
                     [weight |-> b.edge_data[k].count,
                      value  |-> b.edge_data[k].total_value,
                      types  |-> b.edge_data[k].types]]
        nodes == [a \in addrs |->
                     [label     |-> IF known_label(a) # "" THEN known_label(a)
                                    ELSE shorten_address(a),
                      is_center |-> (a = center),
                      is_known  |-> (known_label(a) # ""),
                      interaction_count |-> degree(DOMAIN b.edge_data, a)]]
    IN  [node_order |-> node_order,
         nodes      |-> nodes,
         edge_order |-> b.order,
         edges      |-> edges,
         stats      |-> [total_transactions |-> n_normal + n_internal + n_token,
                         normal_count       |-> n_normal,
                         internal_count     |-> b.internal_count,
                         token_transfers    |-> b.token_transfer_count,
                         unique_addresses   |-> Cardinality(addrs),
                         total_value_in     |-> b.total_value_in,
                         total_value_out    |-> b.total_value_out,
                         edge_count         |-> Cardinality(DOMAIN b.edge_data)]]

\* position of a node in the graph's node order
node_index(g, n) == CHOOSE i \in 1..Len(g.node_order) : g.node_order[i] = n

successors(g, n) == {k[2] : k \in {e \in DOMAIN g.edges : e[1] = n}}
predecessors(g, n) == {k[1] : k \in {e \in DOMAIN g.edges : e[2] = n}}

\* the elementary circuits through node_order[s] that visit only later nodes, as
\* extensions of `path`
RECURSIVE cycles_from(_, _, _)
cycles_from(g, s, path) ==
    LET last   == path[Len(path)]
        closes == IF <<last, g.node_order[s]>> \in DOMAIN g.edges THEN {path} ELSE {}
        nexts  == {m \in successors(g, last) :
                      node_index(g, m) > s /\ m \notin Range(path)}
    IN  closes \cup UNION {cycles_from(g, s, Append(path, m)) : m \in nexts}

\* nx.simple_cycles(graph) (interaction_analyzer.py:253): every elementary circuit
\* once, a self-loop being a circuit of length 1
simple_cycles(g) ==
    UNION {cycles_from(g, s, <<g.node_order[s]>>) : s \in 1..Len(g.node_order)}

\* a plausible slip: the length filter starts at 1
short_cycles_From1(g) == {c \in simple_cycles(g) : 1 <= Len(c) /\ Len(c) <= 5}

\* interaction_analyzer.py:254
short_cycles(g) == {c \in simple_cycles(g) : 2 <= Len(c) /\ Len(c) <= 5}

Pattern(type, severity) == [type |-> type, severity |-> severity]

\* interaction_analyzer.py:269-288
high_concentration(g, center) ==
    IF center \in DOMAIN g.nodes
    THEN LET in_edges == {e \in DOMAIN g.edges : e[2] = center}
             total_in == SumSeq([i \in 1..Len(g.edge_order) |->
                                    IF g.edge_order[i] \in in_edges
                                    THEN g.edges[g.edge_order[i]].weight ELSE 0])
             max_w    == IF in_edges = {} THEN 0
                         ELSE CHOOSE w \in {g.edges[e].weight : e \in in_edges} :
                                 \A e \in in_edges : g.edges[e].weight <= w
         IN  \* max_ratio > 0.5 and total_in > 5
             in_edges # {} /\ total_in > 0 /\ 2 * max_w > total_in /\ total_in > 5
    ELSE FALSE

\* interaction_analyzer.py:312-318
pass_through(g, center) ==
    IF center \in DOMAIN g.nodes
    THEN LET in_count  == Cardinality(predecessors(g, center))
             out_count == Cardinality(successors(g, center))
         IN  \* ratio = min / max > 0.7
             in_count > 3 /\ out_count > 3
               /\ 10 * Min(in_count, out_count) > 7 * Max(in_count, out_count)
    ELSE FALSE

\* interaction_analyzer.py:244-345
detect_patterns(g, center) ==
    IF Cardinality(DOMAIN g.nodes) < 2 THEN <<>>
    ELSE (IF short_cycles(g) # {} THEN <<Pattern("circular_flow", "warning")>> ELSE <<>>)
      \o (IF high_concentration(g, center)
          THEN <<Pattern("high_concentration", "info")>> ELSE <<>>)
      \o (IF \E n \in DOMAIN g.nodes : is_dex_label(known_label(n))
          THEN <<Pattern("dex_activity", "info")>> ELSE <<>>)
      \o (IF pass_through(g, center)
          THEN <<Pattern("pass_through", "warning")>> ELSE <<>>)
      \o (IF NULL_ADDR \in DOMAIN g.nodes \/ DEAD_ADDR \in DOMAIN g.nodes
          THEN <<Pattern("burn_activity", "info")>> ELSE <<>>)

\* sorted(..., reverse=True) built the other way round: equal counts end up
\* in reverse discovery order
insert_by_count_TiesReversed(x, s) ==
    LET before == {i \in 1..Len(s) : s[i].transaction_count > x.transaction_count}
        n      == Cardinality(before)
    IN  SubSeq(s, 1, n) \o <<x>> \o SubSeq(s, n + 1, Len(s))

\* interaction_analyzer.py:241  list.sort(key=transaction_count, reverse=True)
\* is stable: an element goes behind every one whose count is not smaller
insert_by_count(x, s) ==
    LET before == {i \in 1..Len(s) : s[i].transaction_count >= x.transaction_count}
        n      == Cardinality(before)
    IN  SubSeq(s, 1, n) \o <<x>> \o SubSeq(s, n + 1, Len(s))

RECURSIVE sort_by_count(_, _, _)
sort_by_count(counterparties, i, acc) ==
    IF i > Len(counterparties) THEN acc
    ELSE sort_by_count(counterparties, i + 1, insert_by_count(counterparties[i], acc))

\* interaction_analyzer.py:212-242  graph.in_edges / out_edges list the edges
\* on the center in the order they were added
get_top_counterparties(g, center, direction, limit) ==
    LET edges == IF center \in DOMAIN g.nodes
                 THEN Filter(g.edge_order,
                             LAMBDA k : IF direction = "in" THEN k[2] = center
                                        ELSE k[1] = center)
                 ELSE <<>>
        counterparties ==
            Map(edges, LAMBDA k :
                LET addr == IF direction = "in" THEN k[1] ELSE k[2]
                IN  [address |-> addr,
                     label   |-> IF known_label(addr) # "" THEN known_label(addr)
                                 ELSE shorten_address(addr),
                     is_known |-> known_label(addr) # "",
                     transaction_count |-> g.edges[k].weight,
                     total_value_eth   |-> g.edges[k].value,
                     types   |-> g.edges[k].types])
        ranked == sort_by_count(counterparties, 1, <<>>)
    IN  SubSeq(ranked, 1, Min(limit, Len(ranked)))

(* Inputs of the interaction analysis *)

MaxTxns == 3    \* transactions over the three streams together, freely mixed
MaxFan  == 7    \* repetitions of one transfer into the center

Tx(from, to, value) == [from |-> from, to |-> to, value |-> value]

SmallPool ==
    { Tx("0xaa", "0xbb", 1), Tx("0xAA", "0xbb", 2), Tx("0xbb", "0xaa", 1),
      Tx("", "0xaa", 1), Tx("0xbb", "", 1), Tx("0xaa", "0xaa", 1) }

\* a ring of six addresses with a chord, a self-loop and two labelled addresses
RingPool ==
    << Tx("0xaa", "0xbb", 1), Tx("0xbb", "0xcc", 1), Tx("0xcc", "0xdd", 1),
       Tx("0xdd", "0xee", 1), Tx("0xee", "0xff", 1), Tx("0xff", "0xaa", 1),
       Tx("0xcc", "0xaa", 1), Tx("0xbb", "0xbb", 1), Tx("0xaa", DEAD_ADDR, 1),
       Tx(ROUTER, "0xaa", 1) >>

\* the elements of seq at the indices in S, in order
RECURSIVE SubSeqOf(_, _, _)
SubSeqOf(seq, S, i) ==
    IF i > Len(seq) THEN <<>>
    ELSE (IF i \in S THEN <<seq[i]>> ELSE <<>>) \o SubSeqOf(seq, S, i + 1)

StarPool(k) ==
    LET others == <<"0xbb", "0xcc", "0xdd", "0xee", "0xff">>
    IN  [i \in 1..k |-> Tx(others[i], "0xaa", 1)] \o [i \in 1..k |-> Tx("0xaa", others[i], 1)]

MaxParties == 7   \* counterparties on one side of the center

\* every counterparty once, in a fixed order, then again those of weight 2
CrowdPool(w, direction) ==
    LET others == <<"0xbb", "0xcc", "0xdd", "0xee", "0xff", "0x11", "0x22", "0x33">>
        tx(i)  == IF direction = "in" THEN Tx(others[i], "0xaa", 1)
                  ELSE Tx("0xaa", others[i], 1)
        once   == [i \in 1..MaxParties |-> tx(i)]
    IN  once \o SubSeqOf(once, {i \in 1..MaxParties : w[i] = 2}, 1)

MkGraphIn(center, n, i, t) ==
    [center |-> center, normal_txns |-> n, internal_txns |-> i, token_txns |-> t]

Centers == {"0xaa", "0xAA", "0x99"}
Lengths == {l \in (0..MaxTxns) \X (0..MaxTxns) \X (0..MaxTxns) : l[1] + l[2] + l[3] <= MaxTxns}

\* every mix of the three streams over a small pool; the subsets of the ring;
\* repeated transfers into the center; a star around the center
GraphInputs(x) ==
    \/ \E c \in Centers, l \in Lengths :
          \E n \in SeqsOfLen(SmallPool, l[1]), i \in SeqsOfLen(SmallPool, l[2]),
             t \in SeqsOfLen(SmallPool, l[3]) : x = MkGraphIn(c, n, i, t)
    \/ \E S \in SUBSET (1..Len(RingPool)) :
          x = MkGraphIn("0xaa", SubSeqOf(RingPool, S, 1), <<>>, <<>>)
    \/ \E n \in 0..MaxFan, m \in 0..3 :
          x = MkGraphIn("0xaa", [i \in 1..n |-> Tx("0xbb", "0xaa", 1)]
                                  \o [i \in 1..m |-> Tx("0xcc", "0xaa", 1)], <<>>, <<>>)
    \/ \E k \in 3..5 : x = MkGraphIn("0xaa", <<>>, StarPool(k), <<>>)
    \/ \E w \in [1..MaxParties -> 1..2], d \in {"in", "out"} :
          x = MkGraphIn("0xaa", CrowdPool(w, d), <<>>, <<>>)

NoBuild ==
    [order |-> <<>>, edge_data |-> <<>>, total_value_in |-> 0, total_value_out |-> 0,
     internal_count |-> 0, token_transfer_count |-> 0]
NoGraph ==
    [node_order |-> <<>>, nodes |-> <<>>, edge_order |-> <<>>, edges |-> <<>>,
     stats |-> [total_transactions |-> 0, normal_count |-> 0, internal_count |-> 0,
                token_transfers |-> 0, unique_addresses |-> 0, total_value_in |-> 0,
                total_value_out |-> 0, edge_count |-> 0]]

NoTop == [senders |-> <<>>, receivers |-> <<>>]

\* interaction_analyzer.py:117-123 with the three lists fetched
GraphInit ==
    /\ GraphInputs(graph_in)
    /\ graph_pc = "normal"
    /\ cursor = 1
    /\ build = NoBuild
    /\ graph = NoGraph
    /\ patterns = <<>>
    /\ top = NoTop

GraphIdle ==
    /\ graph_in = MkGraphIn("0xaa", <<>>, <<>>, <<>>)
    /\ graph_pc = "idle"
    /\ cursor = 1
    /\ build = NoBuild
    /\ graph = NoGraph
    /\ patterns = <<>>
    /\ top = NoTop

\* center = center_address.lower()  (interaction_analyzer.py:61, 118)
Center == lower(graph_in.center)

\* interaction_analyzer.py:126-141
ProcessNormal ==
    /\ graph_pc = "normal" /\ cursor <= Len(graph_in.normal_txns)
    /\ build' = process_normal(build, graph_in.normal_txns[cursor], Center)
    /\ cursor' = cursor + 1
    /\ UNCHANGED <<graph_in, graph_pc, graph, patterns, top>>

EndNormal ==
    /\ graph_pc = "normal" /\ cursor > Len(graph_in.normal_txns)
    /\ graph_pc' = "internal" /\ cursor' = 1
    /\ UNCHANGED <<graph_in, build, graph, patterns, top>>

\* interaction_analyzer.py:145-156
ProcessInternal ==
    /\ graph_pc = "internal" /\ cursor <= Len(graph_in.internal_txns)
    /\ build' = process_internal(build, graph_in.internal_txns[cursor])
    /\ cursor' = cursor + 1
    /\ UNCHANGED <<graph_in, graph_pc, graph, patterns, top>>

EndInternal ==
    /\ graph_pc = "internal" /\ cursor > Len(graph_in.internal_txns)
    /\ graph_pc' = "token" /\ cursor' = 1
    /\ UNCHANGED <<graph_in, build, graph, patterns, top>>

\* interaction_analyzer.py:160-169
ProcessToken ==
    /\ graph_pc = "token" /\ cursor <= Len(graph_in.token_txns)
    /\ build' = process_token(build, graph_in.token_txns[cursor])
    /\ cursor' = cursor + 1
    /\ UNCHANGED <<graph_in, graph_pc, graph, patterns, top>>

EndToken ==
    /\ graph_pc = "token" /\ cursor > Len(graph_in.token_txns)
    /\ graph_pc' = "nodes" /\ cursor' = 1
    /\ UNCHANGED <<graph_in, build, graph, patterns, top>>

\* interaction_analyzer.py:171-210
BuildNodesAndEdges ==
    /\ graph_pc = "nodes"
    /\ graph' = build_nodes_and_edges(build, Center, Len(graph_in.normal_txns),
                                      Len(graph_in.internal_txns),
                                      Len(graph_in.token_txns))
    /\ graph_pc' = "detect"
    /\ UNCHANGED <<graph_in, cursor, build, patterns, top>>

\* interaction_analyzer.py:82
DetectPatterns ==
    /\ graph_pc = "detect"
    /\ patterns' = detect_patterns(graph, Center)
    /\ graph_pc' = "top"
    /\ UNCHANGED <<graph_in, cursor, build, graph, top>>

\* interaction_analyzer.py:85-86  with the default limit of 5
TopCounterparties ==
    /\ graph_pc = "top"
    /\ top' = [senders   |-> get_top_counterparties(graph, Center, "in", 5),
               receivers |-> get_top_counterparties(graph, Center, "out", 5)]
    /\ graph_pc' = "done"
    /\ UNCHANGED <<graph_in, cursor, build, graph, patterns>>

----------------------------------------------------------------------------
(* CreatorAnalyzer.analyze_creator.  The provider's answers are fixed per  *)
(* trace in `world`; every awaited provider call and pacing delay is       *)
(* appended to `calls`.  Bytecode is the sequence of its hex characters, so *)
(* that "0x" has length 2 and the "" of a failed fetch length 0.           *)

MAX_SIBLING_DEEP_CHECK == 10
TORNADO == "0x12d6"     \* a KNOWN_MIXER_ADDRESSES["ethereum"] key
DEPLOYER == "0xd1"
FACTORY_DEPLOYER == "0xf1"

NO_CODE   == <<"0", "x">>
SOME_CODE == <<"0", "x", "6", "0", "8", "0">>
NO_ANSWER == <<>>

SiblingAddrs ==
    << "0xc01", "0xc02", "0xc03", "0xc04", "0xc05", "0xc06", "0xc07", "0xc08",
       "0xc09", "0xc10", "0xc11", "0xc12", "0xc13", "0xc14", "0xc15", "0xc16" >>

sibling_index(addr) ==
    IF \E i \in 1..Len(SiblingAddrs) : SiblingAddrs[i] = addr
    THEN CHOOSE i \in 1..Len(SiblingAddrs) : SiblingAddrs[i] = addr
    ELSE 0

\* creator_analyzer.py:14-27  KNOWN_MIXER_ADDRESSES.get(self.blockchain, {})
mixers == {TORNADO}

\* creator_analyzer.py:30-37, on the first ten characters of tx['input']
REMOVE_LIQUIDITY_SIGS ==
    {"0xbaa2abde", "0x02751cec", "0xaf2979eb", "0x5b0d5984", "0xded9382a", "0x2195995c"}

Call(fn, addr, n) == [fn |-> fn, addr |-> addr, n |-> n]
Sleep == Call("sleep", "", 0)

\* evm_client.py:277-309  get_contract_creator
get_contract_creator(w, addr) ==
    IF addr = w.contract_address
    THEN (IF w.creator = "none" THEN None
          ELSE Some([deployer |-> DEPLOYER, creation_tx_hash |-> "0xh1"]))
    ELSE IF addr = DEPLOYER
    THEN (CASE w.factory_creator = "none"  -> None
            [] w.factory_creator = "empty" ->
                   Some([deployer |-> "", creation_tx_hash |-> "0xh2"])
            [] OTHER -> Some([deployer |-> FACTORY_DEPLOYER, creation_tx_hash |-> "0xh2"]))
    ELSE None

\* evm_client.py:119-127  get_contract_code
get_contract_code(w, addr) ==
    CASE addr = DEPLOYER -> IF w.creator = "contract" THEN SOME_CODE ELSE NO_CODE
      [] addr = FACTORY_DEPLOYER ->
             IF w.factory_creator = "contract" THEN SOME_CODE
             ELSE IF w.factory_creator = "unreachable" THEN NO_ANSWER ELSE NO_CODE
      [] sibling_index(addr) > 0 ->
             IF sibling_index(addr) < w.dead_from THEN SOME_CODE ELSE NO_CODE
      [] OTHER -> NO_CODE

\* evm_client.py:311-343  get_first_transactions: the explorer's first `limit`
get_first_transactions(w, addr, limit) ==
    SubSeq(w.first_txs, 1, Min(Min(limit, 100), Len(w.first_txs)))

SiblingTx(ts, input) == [timeStamp |-> ts, input |-> input]

\* evm_client.py:233-275  get_transaction_history, most recent first
get_transaction_history(w, addr, offset) ==
    IF sibling_index(addr) > 0
    THEN (CASE w.sibling_activity = "none"   -> <<>>
            [] w.sibling_activity = "recent" -> <<SiblingTx(Now - 3600, "0x")>>
            [] w.sibling_activity = "drained" ->
                   <<SiblingTx(Now - (40 * DAY), "0xa9059cbb"),
                     SiblingTx(Now - (41 * DAY), "0xbaa2abde")>>)
    ELSE SubSeq(w.history, 1, Min(Min(offset, 10000), Len(w.history)))

get_token_info(w, addr) == IF w.sibling_activity = "none" THEN None
                           ELSE Some([name |-> "Token", symbol |-> "TKN"])
get_balance(w, addr) == w.balance_wei
get_transaction_count(w, addr) == Len(w.history)

\* len(input_data) >= 10 and input_data[:10].lower()
selector(input) == IF input \in {"", "0x"} THEN None ELSE Some(input)

\* creator_analyzer.py:187-238  (balance kept in wei)
get_deployer_profile(w, deployer_address) ==
    LET first_txs == get_first_transactions(w, deployer_address, 3)
        first_ts  == IF first_txs = <<>> THEN 0 ELSE first_txs[1].timeStamp
        funding   == Filter(first_txs,
                            LAMBDA tx : lower(tx.to) = lower(deployer_address)
                                        /\ tx.value > 0)
    IN  [ret |->
           [address            |-> deployer_address,
            wallet_age_days    |-> IF first_ts # 0 THEN (Now - first_ts) \div DAY ELSE 0,
            first_tx_timestamp |-> IF first_ts # 0 THEN Some(first_ts) ELSE None,
            funding_source     |->
                IF funding # <<>>
                THEN [address  |-> funding[1].from,
                      label    |-> IF lower(funding[1].from) \in mixers
                                   THEN "Tornado Cash 0.1 ETH" ELSE "Unknown",
                      is_mixer |-> lower(funding[1].from) \in mixers]
                ELSE [address |-> "Unknown", label |-> "Unknown", is_mixer |-> FALSE],
            balance_wei        |-> get_balance(w, deployer_address),
            total_transactions |-> get_transaction_count(w, deployer_address)],
         calls |-> << Call("get_first_transactions", deployer_address, 3), Sleep,
                      Call("get_balance", deployer_address, 0),
                      Call("get_transaction_count", deployer_address, 0) >>]

\* creator_analyzer.py:240-275
find_sibling_contracts(w, deployer_address, exclude_address) ==
    LET txs == get_transaction_history(w, deployer_address, 10000)
        creations == Filter(txs, LAMBDA tx : tx.to = "" /\ tx.contractAddress # ""
                                   /\ lower(tx.contractAddress) # lower(exclude_address))
    IN  [ret   |-> Map(creations, LAMBDA tx : [address     |-> tx.contractAddress,
                                               creation_ts |-> tx.timeStamp]),
         calls |-> <<Call("get_transaction_history", deployer_address, 10000)>>]

\* creator_analyzer.py:277-328
check_sibling_health(w, sibling_address) ==
    LET code       == get_contract_code(w, sibling_address)
        recent_txs == get_transaction_history(w, sibling_address, 5)
        last_ts    == IF recent_txs = <<>> THEN 0 ELSE recent_txs[1].timeStamp
    IN  [ret |->
           [is_alive     |-> Len(code) > 2,
            is_active    |-> last_ts # 0 /\ Now - last_ts < 30 * DAY,
            has_lifespan |-> TRUE,
            lifespan_days |-> 0,
            token_name   |-> IF get_token_info(w, sibling_address) = None THEN None
                             ELSE Some(get_token_info(w, sibling_address)[1].name),
            had_liquidity_removal |->
                \E i \in 1..Len(recent_txs) :
                    /\ selector(recent_txs[i].input) # None
                    /\ selector(recent_txs[i].input)[1] \in REMOVE_LIQUIDITY_SIGS],
         calls |-> << Call("get_contract_code", sibling_address, 0),
                      Call("get_token_info", sibling_address, 0),
                      Call("get_transaction_history", sibling_address, 5) >>]

RedFlag(type, severity) == [type |-> type, severity |-> severity]

\* a slip: only the very first transaction's sender is looked up in the table
detect_funding_source_red_flags_FirstOnly(w, deployer_address) ==
    LET first_txs == get_first_transactions(w, deployer_address, 10)
        first_ts  == IF first_txs = <<>> THEN 0 ELSE first_txs[1].timeStamp
        age       ==
            IF first_ts = 0 THEN <<>>
            ELSE IF Now - first_ts < DAY THEN <<RedFlag("brand_new_wallet", "critical")>>
            ELSE IF Now - first_ts < 7 * DAY THEN <<RedFlag("very_new_wallet", "high")>>
            ELSE <<>>
        mixer     == IF first_txs # <<>> /\ lower(first_txs[1].from) \in mixers
                     THEN <<RedFlag("mixer_funding", "critical")>> ELSE <<>>
    IN  [ret   |-> IF first_txs = <<>> THEN <<RedFlag("no_history", "high")>>
                   ELSE age \o mixer,
         calls |-> <<Call("get_first_transactions", deployer_address, 10)>>]

\* a slip: the second age test is an `if`, not an `elif`
detect_funding_source_red_flags_BothAges(w, deployer_address) ==
    LET first_txs == get_first_transactions(w, deployer_address, 10)
        first_ts  == IF first_txs = <<>> THEN 0 ELSE first_txs[1].timeStamp
        age       ==
            IF first_ts = 0 THEN <<>>
            ELSE (IF Now - first_ts < DAY THEN <<RedFlag("brand_new_wallet", "critical")>>
                  ELSE <<>>)
                 \o (IF Now - first_ts < 7 * DAY THEN <<RedFlag("very_new_wallet", "high")>>
                     ELSE <<>>)
        mixer     == IF \E i \in 1..Len(first_txs) : lower(first_txs[i].from) \in mixers
                     THEN <<RedFlag("mixer_funding", "critical")>> ELSE <<>>
    IN  [ret   |-> IF first_txs = <<>> THEN <<RedFlag("no_history", "high")>>
                   ELSE age \o mixer,
         calls |-> <<Call("get_first_transactions", deployer_address, 10)>>]

\* creator_analyzer.py:330-374
detect_funding_source_red_flags(w, deployer_address) ==
    LET first_txs == get_first_transactions(w, deployer_address, 10)
        first_ts  == IF first_txs = <<>> THEN 0 ELSE first_txs[1].timeStamp
        age       == \* age_days < 1 / < 7 on the float (now - first_ts) / 86400
            IF first_ts = 0 THEN <<>>
            ELSE IF Now - first_ts < DAY THEN <<RedFlag("brand_new_wallet", "critical")>>
            ELSE IF Now - first_ts < 7 * DAY THEN <<RedFlag("very_new_wallet", "high")>>
            ELSE <<>>
        mixer     == IF \E i \in 1..Len(first_txs) : lower(first_txs[i].from) \in mixers
                     THEN <<RedFlag("mixer_funding", "critical")>> ELSE <<>>
    IN  [ret   |-> IF first_txs = <<>> THEN <<RedFlag("no_history", "high")>>
                   ELSE age \o mixer,
         calls |-> <<Call("get_first_transactions", deployer_address, 10)>>]

\* a zero-valued success in place of the failure
failure_result_ZeroSuccess(result) ==
    [contract_address |-> result.contract_address, blockchain |-> result.blockchain,
     success |-> TRUE, deployer |-> None, sibling_contracts |-> <<>>,
     red_flags |-> <<>>, creator_trust_score |-> NoTrust]

\* creator_analyzer.py:64-66
failure_result(result) ==
    [contract_address |-> result.contract_address, blockchain |-> result.blockchain,
     success |-> result.success,
     error |-> "Could not find contract creator. The contract may predate explorer tracking."]

\* every sibling is deep-checked
deep_check_list_All(siblings) == siblings

\* creator_analyzer.py:107  siblings[:MAX_SIBLING_DEEP_CHECK]
deep_check_list(siblings) ==
    SubSeq(siblings, 1, Min(Len(siblings), MAX_SIBLING_DEEP_CHECK))

(* Worlds of a trace *)

MaxCreations == 12   \* contract creations in the deployer's history

CreationTx(i, gap) ==
    [to |-> "", contractAddress |-> SiblingAddrs[i], timeStamp |-> Now - (i * gap)]

\* the deployer's history: n creations, optionally the creation of the target
\* itself and one ordinary transfer in front
History(n, gap, target) ==
    (IF target = "" THEN <<>>
     ELSE <<[to |-> "0xbeef", contractAddress |-> "", timeStamp |-> Now - 60],
            [to |-> "", contractAddress |-> target, timeStamp |-> Now - 120]>>)
    \o [i \in 1..n |-> CreationTx(i, gap)]

FirstTx(from, to, value, ts) == [from |-> from, to |-> to, value |-> value, timeStamp |-> ts]

MaxFirstTxs == 10   \* plain transfers in front of a late mixer transfer

FirstTxLists ==
    { <<>>,
      <<FirstTx("0xfund", DEPLOYER, 5, Now - (400 * DAY))>>,
      <<FirstTx(TORNADO, DEPLOYER, 5, Now - 3600)>>,
      <<FirstTx("0xfund", DEPLOYER, 0, Now - (3 * DAY)), FirstTx("0xfund", DEPLOYER, 5, Now - (3 * DAY)),
        FirstTx(DEPLOYER, "0xbeef", 1, Now - (2 * DAY)), FirstTx(TORNADO, DEPLOYER, 9, Now - DAY)>>,
      <<FirstTx("0xfund", DEPLOYER, 5, 0)>>,                 \* no 'timeStamp' in the answer
      <<FirstTx("0xfund", DEPLOYER, 5, Now - DAY)>>,
      <<FirstTx("0xfund", DEPLOYER, 5, Now - (7 * DAY))>>,
      <<FirstTx("0xfund", DEPLOYER, 0, Now - (9 * DAY)), FirstTx(TORNADO, DEPLOYER, 5, Now - (9 * DAY)),
        FirstTx(TORNADO, DEPLOYER, 5, Now - (8 * DAY))>>,
      [i \in 1..(MaxFirstTxs + 1) |->
          FirstTx(IF i > MaxFirstTxs THEN TORNADO ELSE "0xfund", DEPLOYER, i, Now - (20 * DAY))] }

Worlds ==
    [contract_address : {"0xCC"},
     creator          : {"none", "eoa"},
     factory_creator  : {"none"},
     history          : {History(n, g, t) : n \in 0..MaxCreations, g \in {3600, 2 * DAY},
                                            t \in {"", "0xcc", "0xCC"}},
     first_txs        : {<<>>, <<FirstTx("0xfund", DEPLOYER, 5, Now - (400 * DAY))>>},
     dead_from        : {1, 6},
     sibling_activity : {"recent", "drained"},
     balance_wei      : {0}]
    \cup
    [contract_address : {"0xCC", "0xcc"},
     creator          : {"none", "eoa", "contract"},
     factory_creator  : {"none", "empty", "eoa", "contract", "unreachable"},
     history          : {History(n, 3600, "0xcc") : n \in {0, 3}},
     first_txs        : FirstTxLists,
     dead_from        : {1, 3},
     sibling_activity : {"none", "recent", "drained"},
     balance_wei      : {0, 7}]

NoLocals ==
    [deployer_address |-> "", is_factory |-> FALSE, creator_info |-> None,
     deployer_profile |-> None, siblings |-> <<>>, checked_siblings |-> <<>>,
     red_flags |-> <<>>]

\* creator_analyzer.py:55-59
initial_result(contract_address) ==
    [success |-> FALSE, contract_address |-> contract_address, blockchain |-> "ethereum"]

TraceInit ==
    /\ world \in Worlds
    /\ trace_pc = "lookup"
    /\ trace = NoLocals
    /\ trace_result = initial_result(world.contract_address)
    /\ calls = <<>>

NoWorld ==
    [contract_address |-> "0xCC", creator |-> "none", factory_creator |-> "none",
     history |-> <<>>, first_txs |-> <<>>, dead_from |-> 1,
     sibling_activity |-> "recent", balance_wei |-> 0]

TraceIdle ==
    /\ world = NoWorld
    /\ trace_pc = "idle"
    /\ trace = NoLocals
    /\ trace_result = initial_result("0xCC")
    /\ calls = <<>>

\* creator_analyzer.py:61-70  Step 1
LookupCreator ==
    /\ trace_pc = "lookup"
    /\ LET creator_info == get_contract_creator(world, world.contract_address)
       IN  /\ IF creator_info = None
              THEN /\ trace_result' = failure_result(trace_result)
                   /\ trace_pc' = "done"
                   /\ calls' = Append(calls, Call("get_contract_creator",
                                                  world.contract_address, 0))
                   /\ UNCHANGED trace
              ELSE /\ trace' = [trace EXCEPT !.creator_info = creator_info,
                                             !.deployer_address = creator_info[1].deployer]
                   /\ trace_pc' = "code"
                   /\ calls' = calls \o <<Call("get_contract_creator",
                                               world.contract_address, 0), Sleep>>
                   /\ UNCHANGED trace_result
    /\ UNCHANGED world

\* a slip: the factory's creator is taken without looking at its bytecode
CheckFactory_AlwaysHop ==
    /\ trace_pc = "code"
    /\ LET deployer_code   == get_contract_code(world, trace.deployer_address)
           factory_creator == get_contract_creator(world, trace.deployer_address)
           hop             == factory_creator # None /\ factory_creator[1].deployer # ""
       IN  IF Len(deployer_code) > 2
           THEN /\ calls' = calls
                       \o << Call("get_contract_code", trace.deployer_address, 0),
                             Call("get_contract_creator", trace.deployer_address, 0),
                             Sleep >>
                       \o (IF hop THEN <<Call("get_contract_code",
                                              factory_creator[1].deployer, 0)>>
                           ELSE <<>>)
                /\ trace' = IF hop
                            THEN [trace EXCEPT !.deployer_address = factory_creator[1].deployer,
                                               !.is_factory = FALSE]
                            ELSE [trace EXCEPT !.is_factory = TRUE]
           ELSE /\ calls' = Append(calls, Call("get_contract_code",
                                               trace.deployer_address, 0))
                /\ trace' = [trace EXCEPT !.is_factory = FALSE]
    /\ trace_pc' = "profile"
    /\ UNCHANGED <<world, trace_result>>

\* creator_analyzer.py:72-88  Step 2
CheckFactory ==
    /\ trace_pc = "code"
    /\ LET deployer_code   == get_contract_code(world, trace.deployer_address)
           factory_creator == get_contract_creator(world, trace.deployer_address)
           hop             == factory_creator # None /\ factory_creator[1].deployer # ""
           factory_code    == get_contract_code(world, factory_creator[1].deployer)
       IN  IF Len(deployer_code) > 2
           THEN /\ calls' = calls
                       \o << Call("get_contract_code", trace.deployer_address, 0),
                             Call("get_contract_creator", trace.deployer_address, 0),
                             Sleep >>
                       \o (IF hop THEN <<Call("get_contract_code",
                                              factory_creator[1].deployer, 0)>>
                           ELSE <<>>)
                /\ trace' = IF hop /\ Len(factory_code) <= 2
                            THEN [trace EXCEPT !.deployer_address = factory_creator[1].deployer,
                                               !.is_factory = FALSE]
                            ELSE [trace EXCEPT !.is_factory = TRUE]
           ELSE /\ calls' = Append(calls, Call("get_contract_code",
                                               trace.deployer_address, 0))
                /\ trace' = [trace EXCEPT !.is_factory = FALSE]
    /\ trace_pc' = "profile"
    /\ UNCHANGED <<world, trace_result>>

\* creator_analyzer.py:90-96  Step 3
ProfileDeployer ==
    /\ trace_pc = "profile"
    /\ LET r == get_deployer_profile(world, trace.deployer_address)
       IN  /\ trace' = [trace EXCEPT !.deployer_profile =
                           Some([is_factory |-> trace.is_factory,
                                 creation_tx_hash |-> trace.creator_info[1].creation_tx_hash]
                                @@ r.ret)]
           /\ calls' = calls \o r.calls \o <<Sleep>>
    /\ trace_pc' = "siblings"
    /\ UNCHANGED <<world, trace_result>>

\* creator_analyzer.py:98-103  Step 4
FindSiblings ==
    /\ trace_pc = "siblings"
    /\ LET r == find_sibling_contracts(world, trace.deployer_address, world.contract_address)
       IN  /\ trace' = [trace EXCEPT !.siblings = r.ret]
           /\ calls' = calls \o r.calls
    /\ trace_pc' = "deep_check"
    /\ UNCHANGED <<world, trace_result>>

\* creator_analyzer.py:107-112  one iteration of Step 5
CheckSibling ==
    /\ trace_pc = "deep_check"
    /\ Len(trace.checked_siblings) < Len(deep_check_list(trace.siblings))
    /\ LET sibling == deep_check_list(trace.siblings)[Len(trace.checked_siblings) + 1]
           r       == check_sibling_health(world, sibling.address)
       IN  /\ trace' = [trace EXCEPT !.checked_siblings = Append(@, r.ret @@ sibling)]
           /\ calls' = calls \o r.calls \o <<Sleep>>
    /\ UNCHANGED <<world, trace_pc, trace_result>>

\* creator_analyzer.py:114-116  Step 6, once the loop has run out
DetectRedFlags ==
    /\ trace_pc = "deep_check"
    /\ Len(trace.checked_siblings) >= Len(deep_check_list(trace.siblings))
    /\ LET r == detect_funding_source_red_flags(world, trace.deployer_address)
       IN  /\ trace' = [trace EXCEPT !.red_flags = r.ret]
           /\ calls' = calls \o r.calls
    /\ trace_pc' = "score"
    /\ UNCHANGED <<world, trace_result>>

\* creator_analyzer.py:125-145  (the average in tenths of a day)
summary(siblings, checked_siblings, is_factory) ==
    LET alive_count == Count(checked_siblings, LAMBDA x : x.is_alive)
        lifespans   == Filter(checked_siblings, LAMBDA x : x.lifespan_days # 0)
    IN  [total_siblings    |-> Len(siblings),
         checked_siblings  |-> Len(checked_siblings),
         alive_siblings    |-> alive_count,
         active_siblings   |-> Count(checked_siblings, LAMBDA x : x.is_active),
         dead_siblings     |-> Len(checked_siblings) - alive_count,
         avg_sibling_lifespan_tenths |->
             IF lifespans = <<>> THEN 0
             ELSE py_round(10 * SumSeq(Map(lifespans, LAMBDA x : x.lifespan_days)),
                           Len(lifespans)),
         deployer_is_serial  |-> Len(siblings) > 5,
         deployer_is_factory |-> is_factory]

\* creator_analyzer.py:118-148  Step 7 and the return
ScoreAndReturn ==
    /\ trace_pc = "score"
    /\ trace_result' =
          [success |-> TRUE, contract_address |-> trace_result.contract_address,
           blockchain |-> trace_result.blockchain,
           deployer |-> trace.deployer_profile,
           sibling_contracts |-> trace.checked_siblings,
           red_flags |-> trace.red_flags,
           creator_trust_score |->
               calculate_creator_trust_score(trace.deployer_profile[1],
                                             trace.checked_siblings, trace.red_flags),
           summary |-> summary(trace.siblings, trace.checked_siblings, trace.is_factory)]
    /\ trace_pc' = "done"
    /\ UNCHANGED <<world, trace, calls>>


----------------------------------------------------------------------------
(* EVMAnalyzer._analyze_source_code.  The source text is the sequence of   *)
(* the pieces the scanner's patterns and substring tests can tell apart;   *)
(* a match's location is the character offset of its piece.                *)

CALL_VALUE   == ".call{value:1}("
SEND         == ".send("
DELEGATECALL == ".delegatecall("
SELFDESTRUCT == "selfdestruct("
TX_ORIGIN    == "tx.origin"
ONLY_OWNER   == "onlyOwner"
OWNABLE      == "Ownable"
FN_MINT      == "function mint"
FN_BURN      == "function burn"
FN_PAUSE     == "function pause"
PLAIN        == "uint x;"

SourcePieces == {CALL_VALUE, SEND, DELEGATECALL, SELFDESTRUCT, TX_ORIGIN, ONLY_OWNER,
                 OWNABLE, FN_MINT, FN_BURN, FN_PAUSE, PLAIN}

\* len() of a piece
width(piece) ==
    CASE piece = CALL_VALUE   -> 15
      [] piece = SEND         -> 6
      [] piece = DELEGATECALL -> 14
      [] piece = SELFDESTRUCT -> 13
      [] piece = TX_ORIGIN    -> 9
      [] piece = ONLY_OWNER   -> 9
      [] piece = OWNABLE      -> 7
      [] piece = FN_MINT      -> 13
      [] piece = FN_BURN      -> 13
      [] piece = FN_PAUSE     -> 14
      [] OTHER                -> 7

\* match.start() of the piece at index i
start_of(source_code, i) == SumSeq([j \in 1..(i - 1) |-> width(source_code[j])])

\* evm_analyzer.py:169-195  the patterns dict, in insertion order
scan_patterns ==
    << [type |-> "reentrancy",     pattern |-> CALL_VALUE,   severity |-> "high"],
       [type |-> "unchecked_send", pattern |-> SEND,         severity |-> "medium"],
       [type |-> "delegatecall",   pattern |-> DELEGATECALL, severity |-> "high"],
       [type |-> "selfdestruct",   pattern |-> SELFDESTRUCT, severity |-> "medium"],
       [type |-> "tx_origin",      pattern |-> TX_ORIGIN,    severity |-> "medium"] >>

\* an item of the vulnerabilities list; the structural and bytecode items
\* carry no 'location' key
Vuln(type, severity, location) ==
    [type |-> type, severity |-> severity, location |-> location]

\* evm_analyzer.py:198-205  re.finditer for pattern k, from piece i on
RECURSIVE pattern_matches(_, _, _, _)
pattern_matches(vulnerabilities, source_code, k, i) ==
    IF i > Len(source_code) THEN vulnerabilities
    ELSE pattern_matches(
             IF source_code[i] = scan_patterns[k].pattern
             THEN Append(vulnerabilities,
                         Vuln(scan_patterns[k].type, scan_patterns[k].severity,
                              Some(start_of(source_code, i))))
             ELSE vulnerabilities,
             source_code, k, i + 1)

\* evm_analyzer.py:197  for vuln_type, config in patterns.items(), from k on
RECURSIVE patterns_loop(_, _, _)
patterns_loop(vulnerabilities, source_code, k) ==
    IF k > Len(scan_patterns) THEN vulnerabilities
    ELSE patterns_loop(pattern_matches(vulnerabilities, source_code, k, 1),
                       source_code, k + 1)

\* 'piece' in source_code
contains(source_code, piece) == \E i \in 1..Len(source_code) : source_code[i] = piece

\* evm_analyzer.py:207-223
structural_checks(vulnerabilities, source_code) ==
    LET v1 == IF /\ ~contains(source_code, ONLY_OWNER)
                 /\ ~contains(source_code, OWNABLE)
                 /\ (contains(source_code, FN_MINT) \/ contains(source_code, FN_BURN))
              THEN Append(vulnerabilities, Vuln("missing_access_control", "high", None))
              ELSE vulnerabilities
    IN  IF contains(source_code, FN_PAUSE) /\ ~contains(source_code, ONLY_OWNER)
        THEN Append(v1, Vuln("unrestricted_pause", "high", None))
        ELSE v1

\* a slip: the structural checks run before the pattern table
analyze_source_code_StructuralFirst(source_code) ==
    patterns_loop(structural_checks(<<>>, source_code), source_code, 1)

\* evm_analyzer.py:156-225
analyze_source_code(source_code) ==
    structural_checks(patterns_loop(<<>>, source_code, 1), source_code)

MaxPieces == 3    \* pieces in one source text
MaxScans  == 2    \* runs of the scanner on the same text

ScanInputs(x) == \E n \in 0..MaxPieces : x \in [1..n -> SourcePieces]

ScanInit ==
    /\ ScanInputs(scan_src)
    /\ scan_out = <<>>

ScanIdle ==
    /\ scan_src = <<>>
    /\ scan_out = <<>>

\* one call of EVMAnalyzer._analyze_source_code(scan_src)
AnalyzeSourceCode ==
    /\ Len(scan_out) < MaxScans
    /\ scan_out' = Append(scan_out, analyze_source_code(scan_src))
    /\ UNCHANGED scan_src

----------------------------------------------------------------------------
(* AnalysisOrchestrator.analyze_contract and the EVMAnalyzer.analyze_contract *)
(* it awaits.  The provider's answers are fixed per analysis in `chain`; a   *)
(* key a dict does not hold is None here.  Every call made on a collaborator *)
(* is appended to an_calls.                                                  *)

\* bytecode hex text: the characters of `text` followed by `zeros` times "0"
Bytecode(text, zeros) == [text |-> text, zeros |-> zeros]
code_len(bytecode) == Len(bytecode.text) + bytecode.zeros

FETCH_FAILED == Bytecode(<<>>, 0)                               \* ""
EMPTY_CODE   == Bytecode(<<"0", "x">>, 0)                       \* "0x"
PLAIN_CODE   == Bytecode(<<"0", "x", "6", "0", "8", "0">>, 0)
FF_CODE      == Bytecode(<<"0", "x", "6", "f", "f", "0">>, 0)
LARGE_CODE   == Bytecode(<<"0", "x", "6", "0">>, 49200)
\* HexBytes.hex() carries the "0x" prefix or not, depending on the installed
\* hexbytes release: 24,576 bytes in both spellings, 24,577 without prefix
LIMIT_CODE      == Bytecode(<<"0", "x">>, 2 * 24576)
LIMIT_CODE_BARE == Bytecode(<<>>, 2 * 24576)
OVER_CODE_BARE  == Bytecode(<<>>, 2 * 24577)

\* evm_client.py:56-110  None when unverified and when the request fails
fetch_source_code(c) ==
    IF c.source_fetch = "verified" THEN Some(c.source_data) ELSE None

\* evm_client.py:119-127  "" when the RPC request fails
fetch_contract_code(c) ==
    CASE c.code = "failed" -> FETCH_FAILED
      [] c.code = "empty"  -> EMPTY_CODE
      [] c.code = "plain"  -> PLAIN_CODE
      [] c.code = "ff"     -> FF_CODE
      [] c.code = "large"  -> LARGE_CODE
      [] c.code = "limit"  -> LIMIT_CODE
      [] c.code = "limit_bare" -> LIMIT_CODE_BARE
      [] c.code = "over_bare"  -> OVER_CODE_BARE

\* evm_client.py:129-215  None when the request fails
fetch_token_info(c) ==
    CASE c.token = "failed"    -> None
      [] c.token = "erc20"     -> Some([name |-> Some("Token"), symbol |-> Some("TKN"),
                                        decimals |-> 18])
      [] c.token = "not_token" -> Some([name |-> None, symbol |-> None, decimals |-> 18])

\* creator_analyzer.py:150-181  what the await yields: an exception, None or
\* the creator dict
get_contract_creator_quick(c) ==
    CASE c.creator_check = "raises" -> [raised |-> TRUE, ret |-> None]
      [] c.creator_check = "none"   -> [raised |-> FALSE, ret |-> None]
      [] c.creator_check = "ok"     ->
             [raised |-> FALSE,
              ret |-> Some([deployer_address |-> DEPLOYER, wallet_age_days |-> 3,
                            transaction_count |-> 12, is_new_wallet |-> 3 < 7])]

\* minor version number of re.search(r'v?(\d+\.\d+\.\d+)', compiler_version)
minor_version(compiler_version) ==
    CASE compiler_version = "v0.8.19" -> 8
      [] compiler_version = "v0.6.12" -> 6
      [] OTHER -> 4

\* evm_analyzer.py:107-154
analyze_code_quality(source_data) ==
    LET compiler_version == source_data.compiler_version
        q1 == IF compiler_version # "" /\ minor_version(compiler_version) >= 8 THEN 5
              ELSE IF compiler_version # "" /\ minor_version(compiler_version) >= 6 THEN 3
              ELSE 0
        q2 == IF source_data.optimization_used THEN q1 + 5 ELSE q1
        q3 == IF source_data.license_type # "" /\ source_data.license_type # "None"
              THEN q2 + 5 ELSE q2
    IN  [has_score |-> TRUE, score |-> q3 + 10,
         modern_compiler |-> compiler_version # "" /\ minor_version(compiler_version) >= 8,
         compiler_version |-> compiler_version,
         optimization_enabled |-> source_data.optimization_used,
         license |-> source_data.license_type]

\* 'ff' in bytecode.lower()
contains_ff(bytecode) ==
    \E i \in 1..(Len(bytecode.text) - 1) :
        bytecode.text[i] = "f" /\ bytecode.text[i + 1] = "f"

\* evm_analyzer.py:227-257
analyze_bytecode(bytecode) ==
    (IF contains_ff(bytecode)
     THEN <<Vuln("selfdestruct_opcode", "medium", None)>> ELSE <<>>)
    \o (IF code_len(bytecode) \div 2 > 24576
        THEN <<Vuln("large_bytecode", "low", None)>> ELSE <<>>)

\* a slip: only the empty string of a failed fetch counts as no code
has_code_NonEmpty(bytecode) == code_len(bytecode) > 0

\* evm_analyzer.py:85  bytecode and bytecode != "0x"
has_code(bytecode) == code_len(bytecode) > 0 /\ bytecode # EMPTY_CODE

\* evm_analyzer.py:77-81
unverified_warning ==
    [type |-> "unverified_contract", severity |-> "high",
     message |-> "Contract source code is not verified on the block explorer"]

\* a slip: the result dict starts with a locked 'liquidity' section
initial_analysis_WithLiquidity(contract_address) ==
    [contract_address |-> lower(contract_address), blockchain |-> "ethereum",
     is_verified |-> FALSE, source_code |-> None, abi |-> None, token_info |-> None,
     code_quality |-> EmptyCodeQuality, vulnerabilities |-> <<>>, warnings |-> <<>>,
     has_code |-> None, error |-> None, tokenomics |-> None, scores |-> None,
     creator_info |-> None, priority_issues |-> None, nanette_response |-> None,
     liquidity |-> Some(BestLiquidity)]

\* evm_analyzer.py:45-56  (with the keys added later held as None; the dict
\* has no 'liquidity' key and no later step of the pipeline adds one)
initial_analysis(contract_address) ==
    [contract_address |-> lower(contract_address), blockchain |-> "ethereum",
     is_verified |-> FALSE, source_code |-> None, abi |-> None, token_info |-> None,
     code_quality |-> EmptyCodeQuality, vulnerabilities |-> <<>>, warnings |-> <<>>,
     has_code |-> None, error |-> None, tokenomics |-> None, scores |-> None,
     creator_info |-> None, priority_issues |-> None, nanette_response |-> None,
     liquidity |-> None]

\* orchestrator.py:78-83 and 155-160
analysis_failure(c, error) ==
    [success |-> FALSE, error |-> error, contract_address |-> c.contract_address,
     blockchain |-> "ethereum"]

\* VulnerabilityScanner.scan(source_code, abi): the ordered rules and the
\* structural checks of the Signal Scanner over the source text
scan(source_code, abi) == analyze_source_code(source_code.pieces)

\* the sections SafetyScorer.calculate_score reads with .get() from the dict
\* handed over at orchestrator.py:105; analysis.get('liquidity', {}) is the
\* empty section when the key is absent
scorer_input(analysis) ==
    [is_verified     |-> analysis.is_verified,
     code_quality    |-> analysis.code_quality,
     vulnerabilities |-> analysis.vulnerabilities,
     tokenomics      |-> IF analysis.tokenomics = None THEN EmptyTokenomics
                         ELSE [present |-> TRUE, has_score |-> TRUE,
                               score |-> analysis.tokenomics[1].score,
                               red_flags |-> analysis.tokenomics[1].red_flags,
                               warnings |-> analysis.tokenomics[1].warnings],
     liquidity       |-> IF analysis.liquidity = None THEN EmptyLiquidity
                         ELSE analysis.liquidity[1]]

Issue(severity, category) == [severity |-> severity, category |-> category]

\* safety_scorer.py:230-275
get_priority_issues(analysis) ==
    LET vulnerabilities == analysis.vulnerabilities
        critical_vulns == Filter(vulnerabilities, LAMBDA v : v.severity = "critical")
        high_vulns == Filter(vulnerabilities, LAMBDA v : v.severity = "high")
        red_flags == IF analysis.tokenomics = None THEN <<>>
                     ELSE analysis.tokenomics[1].red_flags
        liquidity == IF analysis.liquidity = None THEN EmptyLiquidity
                     ELSE analysis.liquidity[1]
    IN  [i \in 1..Len(critical_vulns) |-> Issue("critical", "security")]
        \o [i \in 1..Min(3, Len(high_vulns)) |-> Issue("high", "security")]
        \o [i \in 1..Min(3, Len(red_flags)) |-> Issue("high", "tokenomics")]
        \o (IF ~liquidity.is_locked THEN <<Issue("critical", "liquidity")>> ELSE <<>>)

\* a slip: the pre-check awaited outside its own try block
quick_creator_check_NoTry(analysis, c) ==
    LET r == get_contract_creator_quick(c)
    IN  IF r.raised THEN [analysis |-> analysis, raised |-> TRUE]
        ELSE IF r.ret # None
        THEN [analysis |-> [analysis EXCEPT !.creator_info = r.ret], raised |-> FALSE]
        ELSE [analysis |-> analysis, raised |-> FALSE]

\* orchestrator.py:108-116  Step 5.5; `raised` is what escapes to line 150
quick_creator_check(analysis, c) ==
    LET r == get_contract_creator_quick(c)
    IN  IF r.raised THEN [analysis |-> analysis, raised |-> FALSE]
        ELSE IF r.ret # None
        THEN [analysis |-> [analysis EXCEPT !.creator_info = r.ret], raised |-> FALSE]
        ELSE [analysis |-> analysis, raised |-> FALSE]

(* Inputs of analyze_contract: three source texts, each as the scanner and *)
(* as the tokenomics analyzer see it.                                      *)

SafeText ==
    [pieces |-> <<PLAIN, ONLY_OWNER>>,
     tok    |-> MkSource(<<[name |-> "buyFee", value |-> 300],
                           [name |-> "sellFee", value |-> 400]>>,
                         [NoKeywords EXCEPT !.access_control = TRUE])]
RiskyText ==
    [pieces |-> <<CALL_VALUE, FN_MINT, TX_ORIGIN, CALL_VALUE>>,
     tok    |-> MkSource(<<[name |-> "sellFee", value |-> 1501]>>,
                         [NoKeywords EXCEPT !.mint = TRUE])]
PausableText ==
    [pieces |-> <<FN_PAUSE, SELFDESTRUCT>>,
     tok    |-> MkSource(<<>>, [NoKeywords EXCEPT !.pause = TRUE])]

SourceData(text, compiler_version, optimized) ==
    [source_code |-> text, abi |-> "[]", compiler_version |-> compiler_version,
     optimization_used |-> optimized,
     license_type |-> IF optimized THEN "MIT" ELSE "None"]

MkChain(valid, source_fetch, source_data, code, token, creator_check, persona) ==
    [contract_address |-> "0xCC", address_valid |-> valid,
     source_fetch |-> source_fetch, source_data |-> source_data, code |-> code,
     token |-> token, creator_check |-> creator_check, persona |-> persona]

CodeAnswers    == {"failed", "empty", "plain", "ff", "large", "limit", "limit_bare",
                   "over_bare"}
TokenAnswers   == {"failed", "erc20", "not_token"}
CreatorAnswers == {"raises", "none", "ok"}
PersonaAnswers == {"ok", "failed"}

\* a verified source in every variety, and an unverified or unreachable one
ChainInputs(x) ==
    \/ \E valid \in BOOLEAN, text \in {SafeText, RiskyText, PausableText},
          cv \in {"", "v0.8.19", "v0.6.12", "v0.4.24"}, opt \in BOOLEAN,
          code \in CodeAnswers, token \in TokenAnswers,
          cc \in CreatorAnswers, p \in PersonaAnswers :
          x = MkChain(valid, "verified", SourceData(text, cv, opt), code, token, cc, p)
    \/ \E valid \in BOOLEAN, sf \in {"unverified", "failed"},
          code \in CodeAnswers, token \in TokenAnswers,
          cc \in CreatorAnswers, p \in PersonaAnswers :
          x = MkChain(valid, sf, SourceData(SafeText, "", FALSE), code, token, cc, p)

NoAnalysisResult == [success |-> FALSE, pending |-> TRUE]

AnalysisInit ==
    /\ ChainInputs(chain)
    /\ an_pc = "start"
    /\ base_analysis = initial_analysis(chain.contract_address)
    /\ an_result = NoAnalysisResult
    /\ an_calls = <<>>

AnalysisIdle ==
    /\ chain = MkChain(FALSE, "failed", SourceData(SafeText, "", FALSE), "failed",
                       "failed", "none", "failed")
    /\ an_pc = "idle"
    /\ base_analysis = initial_analysis("0xCC")
    /\ an_result = NoAnalysisResult
    /\ an_calls = <<>>

\* orchestrator.py:67-83 with evm_analyzer.py:35-81: address check and source
FetchSource ==
    /\ an_pc = "start"
    /\ IF ~chain.address_valid
       THEN /\ an_result' = analysis_failure(chain, "Invalid contract address")
            /\ an_pc' = "done"
            /\ UNCHANGED <<base_analysis, an_calls>>
       ELSE LET source_data == fetch_source_code(chain)
            IN  /\ base_analysis' =
                      IF source_data # None
                      THEN [base_analysis EXCEPT
                               !.is_verified = TRUE,
                               !.source_code = Some(source_data[1].source_code),
                               !.abi = Some(source_data[1].abi),
                               !.code_quality = analyze_code_quality(source_data[1]),
                               !.vulnerabilities =
                                   @ \o analyze_source_code(source_data[1].source_code.pieces)]
                      ELSE [base_analysis EXCEPT
                               !.warnings = Append(@, unverified_warning)]
                /\ an_calls' = an_calls \o <<"get_contract_source_code">>
                       \o (IF source_data # None THEN <<"_analyze_source_code">> ELSE <<>>)
                /\ an_pc' = "bytecode"
                /\ UNCHANGED an_result
    /\ UNCHANGED chain

\* evm_analyzer.py:83-93 with orchestrator.py:77-83
FetchBytecode ==
    /\ an_pc = "bytecode"
    /\ LET bytecode == fetch_contract_code(chain)
       IN  IF has_code(bytecode)
           THEN /\ base_analysis' =
                      [base_analysis EXCEPT
                          !.has_code = Some(TRUE),
                          !.vulnerabilities = @ \o analyze_bytecode(bytecode)]
                /\ an_pc' = "token"
                /\ UNCHANGED an_result
           ELSE /\ base_analysis' =
                      [base_analysis EXCEPT
                          !.has_code = Some(FALSE),
                          !.error = Some("No contract code found at this address")]
                /\ an_result' = analysis_failure(chain,
                                                 "No contract code found at this address")
                /\ an_pc' = "done"
    /\ an_calls' = Append(an_calls, "get_contract_code")
    /\ UNCHANGED chain

\* evm_analyzer.py:95-105
FetchTokenInfo ==
    /\ an_pc = "token"
    /\ base_analysis' = [base_analysis EXCEPT !.token_info = fetch_token_info(chain)]
    /\ an_calls' = Append(an_calls, "get_token_info")
    /\ an_pc' = "scan"
    /\ UNCHANGED <<chain, an_result>>

\* orchestrator.py:85-92  Step 3
RunVulnerabilityScan ==
    /\ an_pc = "scan"
    /\ IF base_analysis.source_code # None
       THEN /\ base_analysis' =
                  [base_analysis EXCEPT
                      !.vulnerabilities = scan(base_analysis.source_code[1],
                                               base_analysis.abi)]
            /\ an_calls' = Append(an_calls, "vulnerability_scanner.scan")
       ELSE UNCHANGED <<base_analysis, an_calls>>
    /\ an_pc' = "tokenomics"
    /\ UNCHANGED <<chain, an_result>>

\* orchestrator.py:94-101  Step 4
RunTokenomics ==
    /\ an_pc = "tokenomics"
    /\ IF base_analysis.source_code # None
       THEN /\ base_analysis' =
                  [base_analysis EXCEPT
                      !.tokenomics =
                          Some(analyze([warnings |-> <<>>, red_flags |-> <<>>],
                                       base_analysis.source_code[1].tok).result)]
            /\ an_calls' = Append(an_calls, "tokenomics_analyzer.analyze")
       ELSE UNCHANGED <<base_analysis, an_calls>>
    /\ an_pc' = "score"
    /\ UNCHANGED <<chain, an_result>>

\* orchestrator.py:103-106  Step 5
CalculateSafetyScores ==
    /\ an_pc = "score"
    /\ base_analysis' =
          [base_analysis EXCEPT !.scores = Some(calculate_score(scorer_input(base_analysis)))]
    /\ an_calls' = Append(an_calls, "safety_scorer.calculate_score")
    /\ an_pc' = "creator"
    /\ UNCHANGED <<chain, an_result>>

\* orchestrator.py:108-116  Step 5.5, and lines 150-160 for what escapes it
QuickCreatorCheck ==
    /\ an_pc = "creator"
    /\ LET out == quick_creator_check(base_analysis, chain)
       IN  IF out.raised
           THEN /\ an_result' = analysis_failure(chain, "creator check")
                /\ an_pc' = "done"
                /\ UNCHANGED base_analysis
           ELSE /\ base_analysis' = out.analysis
                /\ an_pc' = "finish"
                /\ UNCHANGED an_result
    /\ an_calls' = Append(an_calls, "get_contract_creator_quick")
    /\ UNCHANGED chain

\* orchestrator.py:118-148  Steps 6 to 8: the narrator falls back on its own
\* failure (personality.py:100-114) and _save_analysis swallows its own
FinishAnalysis ==
    /\ an_pc = "finish"
    /\ LET done == [base_analysis EXCEPT
                       !.priority_issues = Some(get_priority_issues(base_analysis)),
                       !.nanette_response =
                           Some(IF chain.persona = "ok" THEN "response" ELSE "fallback")]
       IN  /\ base_analysis' = done
           /\ an_result' = [success |-> TRUE] @@ done
    /\ an_calls' = an_calls \o <<"safety_scorer.get_priority_issues",
                                 "analyze_contract_with_personality", "_save_analysis">>
    /\ an_pc' = "done"
    /\ UNCHANGED chain

----------------------------------------------------------------------------
(* AnalysisOrchestrator.trace_creator and .analyze_interactions, with the   *)
(* two repository tables they consult.  Time is counted in whole hours.  A  *)
(* handler is one step: the analyzer it awaits is summed up by its outcome, *)
(* which is an input of the request.                                        *)

None_row == <<>>

Row(contract_address, blockchain, analyzed_at) ==
    [contract_address |-> contract_address, blockchain |-> blockchain,
     analyzed_at |-> analyzed_at]

\* repository.py:224-233 and 584-597  create(): keys are stored lower-cased,
\* analyzed_at defaults to utcnow (models.py:193, 323)
repo_create(rows, contract_address, blockchain, now) ==
    Append(rows, Row(lower(contract_address), blockchain, now))

\* repository.py:235-245 and 600-609  get_recent(): the newest row of the key
\* with analyzed_at >= utcnow - max_age_hours, or None
get_recent(rows, contract_address, blockchain, max_age_hours, now) ==
    LET hits == {i \in 1..Len(rows) :
                    /\ rows[i].contract_address = lower(contract_address)
                    /\ rows[i].blockchain = blockchain
                    /\ rows[i].analyzed_at >= now - max_age_hours}
    IN  IF hits = {} THEN None_row
        ELSE <<rows[CHOOSE i \in hits :
                       \A j \in hits : rows[j].analyzed_at <= rows[i].analyzed_at]>>

\* orchestrator.py:323-332 and 603-612  the outer `except Exception`
orchestrator_failure(error, contract_address, blockchain) ==
    [success |-> FALSE, error |-> error,
     contract_address |-> contract_address, blockchain |-> blockchain]

Event(ev, what) == [ev |-> ev, what |-> what]

\* creator_analyzer.py:50-148 as seen by its caller: what analyze_creator
\* returns for each outcome of the run
creator_analysis(outcome, contract_address, blockchain) ==
    IF outcome = "not_found"
    THEN [success |-> FALSE, contract_address |-> contract_address,
          blockchain |-> blockchain,
          error |-> "Could not find contract creator. The contract may predate explorer tracking."]
    ELSE [success |-> TRUE, contract_address |-> contract_address,
          blockchain |-> blockchain, deployer |-> [address |-> DEPLOYER],
          red_flags |-> <<>>]

\* orchestrator.py:572-612
trace_creator(rows, now, contract_address, blockchain, inp) ==
    IF ~inp.lookup_ok
    THEN [result |-> orchestrator_failure("database", contract_address, blockchain),
          rows |-> rows, events |-> <<>>]
    ELSE LET cached == get_recent(rows, contract_address, blockchain, 6, now)
             run    == << Event("analyzer_run", "creator"),
                          Event("provider_call", "get_contract_creator") >>
             analysis == creator_analysis(inp.outcome, contract_address, blockchain)
         IN  IF cached # None_row
             THEN [result |-> [success |-> TRUE, contract_address |-> contract_address,
                               blockchain |-> blockchain,
                               analyzed_at |-> cached[1].analyzed_at, cached |-> TRUE],
                   rows |-> rows, events |-> <<>>]
             ELSE IF inp.outcome = "raises"
             THEN [result |-> orchestrator_failure("analyzer", contract_address, blockchain),
                   rows |-> rows, events |-> run]
             ELSE IF ~analysis.success
             THEN [result |-> analysis, rows |-> rows, events |-> run]
             ELSE [result |-> [nanette_explanation |-> "text"] @@ analysis,
                   rows |-> IF inp.save_ok
                            THEN repo_create(rows, contract_address, blockchain, now)
                            ELSE rows,
                   events |-> run]

\* interaction_analyzer.py:49-50  the parameters analyze_interactions accepts
\* besides self
InteractionAnalyzerParams == {"address", "max_transactions"}

\* Python's argument binding: a keyword that names no parameter is a TypeError
\* raised by the call itself, before the coroutine runs
call_binds(parameters, keywords) == keywords \subseteq parameters

\* interaction_analyzer.py:93-110  the dict analyze_interactions returns once
\* the three fetches are done (an explorer failure is an empty list)
interaction_analysis(address, blockchain, inp) ==
    [address |-> lower(address), blockchain |-> blockchain,
     total_transactions |-> inp.total_transactions,
     unique_addresses |-> inp.total_transactions,
     top_senders |-> <<>>, top_receivers |-> <<>>,
     graph_data |-> "graph", notable_patterns |-> <<>>, risk_indicators |-> <<>>]

dict_get(d, k, default) == IF k \in DOMAIN d THEN d[k] ELSE default

\* orchestrator.py:217-332
analyze_interactions(rows, now, contract_address, blockchain, inp) ==
    IF ~inp.lookup_ok
    THEN [result |-> orchestrator_failure("database", contract_address, blockchain),
          rows |-> rows, events |-> <<>>]
    ELSE LET cached == get_recent(rows, contract_address, blockchain, 1, now)
             \* line 243: analyze_interactions(contract_address, blockchain=blockchain)
             binds    == call_binds(InteractionAnalyzerParams, {"blockchain"})
             run      == << Event("analyzer_run", "interactions"),
                            Event("provider_call", "txlist"),
                            Event("provider_call", "txlistinternal"),
                            Event("provider_call", "tokentx") >>
             analysis == interaction_analysis(contract_address, blockchain, inp)
             stats    == dict_get(analysis, "stats", <<>>)
         IN  \* lines 237-238: a hit is printed and the handler goes on
             IF ~binds
             THEN [result |-> orchestrator_failure(
                                  "TypeError: unexpected keyword argument 'blockchain'",
                                  contract_address, blockchain),
                   rows |-> rows, events |-> <<>>]
             ELSE IF ~dict_get(analysis, "success", FALSE)
             THEN [result |-> orchestrator_failure(
                                  dict_get(analysis, "error", "Interaction analysis failed"),
                                  contract_address, blockchain),
                   rows |-> rows, events |-> run]
             ELSE [result |-> [success |-> TRUE, contract_address |-> contract_address,
                               blockchain |-> blockchain, stats |-> stats,
                               top_senders |-> dict_get(analysis, "top_senders", <<>>),
                               top_receivers |-> dict_get(analysis, "top_receivers", <<>>),
                               patterns |-> dict_get(analysis, "patterns", <<>>),
                               risk_indicators |-> dict_get(analysis, "risk_indicators", <<>>),
                               graph_image |-> "png", nanette_explanation |-> "text"],
                   rows |-> IF inp.save_ok
                            THEN repo_create(rows, contract_address, blockchain, now)
                            ELSE rows,
                   events |-> run]

(* Requests *)

MaxClock    == 7    \* hours that pass
MaxRequests == 2    \* requests served

OrchAddresses == {"0xAA", "0xaa"}
OrchChains    == {"ethereum", "bsc"}

OrchInput(lookup_ok, save_ok, outcome) ==
    [lookup_ok |-> lookup_ok, save_ok |-> save_ok, outcome |-> outcome,
     total_transactions |-> 2]

\* every step answers, or exactly one of them fails
OrchInputs ==
    {OrchInput(TRUE, TRUE, o) : o \in {"ok", "not_found", "raises"}}
    \cup {OrchInput(FALSE, TRUE, "ok"), OrchInput(TRUE, FALSE, "ok")}

NoRequest == [kind |-> "none"]

\* the tables outlive the process: rows of earlier runs may be there
StoredRows == {<<>>, <<Row("0xaa", "ethereum", 0)>>}

OrchInit ==
    /\ clock = 0
    /\ creator_rows \in StoredRows
    /\ interaction_rows \in StoredRows
    /\ orch_req = NoRequest
    /\ orch_result = <<>>
    /\ orch_events = <<>>
    /\ orch_n = 0

OrchIdle ==
    /\ clock = 0
    /\ creator_rows = <<>>
    /\ interaction_rows = <<>>
    /\ orch_req = NoRequest
    /\ orch_result = <<>>
    /\ orch_events = <<>>
    /\ orch_n = 0

\* an hour passes between requests
Tick ==
    /\ clock < MaxClock
    /\ clock' = clock + 1
    /\ UNCHANGED <<creator_rows, interaction_rows, orch_req, orch_result,
                   orch_events, orch_n>>

\* orchestrator.py:572-612  one /trace-creator request
TraceCreator ==
    /\ orch_n < MaxRequests
    /\ \E contract_address \in OrchAddresses, blockchain \in OrchChains, inp \in OrchInputs :
          LET r == trace_creator(creator_rows, clock, contract_address, blockchain, inp)
          IN  /\ orch_req' = [kind |-> "creator", contract_address |-> contract_address,
                              blockchain |-> blockchain, inp |-> inp]
              /\ orch_result' = r.result
              /\ creator_rows' = r.rows
              /\ orch_events' = r.events
    /\ orch_n' = orch_n + 1
    /\ UNCHANGED <<clock, interaction_rows>>

\* orchestrator.py:217-332  one /analyze-interactions request
AnalyzeInteractions ==
    /\ orch_n < MaxRequests
    /\ \E contract_address \in OrchAddresses, blockchain \in OrchChains, inp \in OrchInputs :
          LET r == analyze_interactions(interaction_rows, clock, contract_address,
                                        blockchain, inp)
          IN  /\ orch_req' = [kind |-> "interactions", contract_address |-> contract_address,
                              blockchain |-> blockchain, inp |-> inp]
              /\ orch_result' = r.result
              /\ interaction_rows' = r.rows
              /\ orch_events' = r.events
    /\ orch_n' = orch_n + 1
    /\ UNCHANGED <<clock, creator_rows>>

----------------------------------------------------------------------------

(* Specifications *)

OthersIdle == ScanIdle /\ AnalysisIdle /\ OrchIdle

InitScore == ScoreInit /\ TokIdle /\ TrustIdle /\ TraceIdle /\ GraphIdle /\ OthersIdle
NextScore == CalculateScore
                /\ UNCHANGED <<tokVars, trustVars, traceVars, graphVars, scanVars, anVars, orchVars>>
SpecScore == InitScore /\ [][NextScore]_vars

InitTrust == ScoreIdle /\ TokIdle /\ TrustInit /\ TraceIdle /\ GraphIdle /\ OthersIdle
NextTrust == CalculateCreatorTrustScore
                /\ UNCHANGED <<scoreVars, tokVars, traceVars, graphVars, scanVars, anVars, orchVars>>
SpecTrust == InitTrust /\ [][NextTrust]_vars

InitTok == ScoreIdle /\ TokInit /\ TrustIdle /\ TraceIdle /\ GraphIdle /\ OthersIdle
NextTok == Analyze
                /\ UNCHANGED <<scoreVars, trustVars, traceVars, graphVars, scanVars, anVars, orchVars>>
SpecTok == InitTok /\ [][NextTok]_vars

InitGraph == ScoreIdle /\ TokIdle /\ TrustIdle /\ TraceIdle /\ GraphInit /\ OthersIdle
NextGraph ==
    /\ \/ ProcessNormal
       \/ EndNormal
       \/ ProcessInternal
       \/ EndInternal
       \/ ProcessToken
       \/ EndToken
       \/ BuildNodesAndEdges
       \/ DetectPatterns
       \/ TopCounterparties
    /\ UNCHANGED <<scoreVars, tokVars, trustVars, traceVars, scanVars, anVars, orchVars>>
SpecGraph == InitGraph /\ [][NextGraph]_vars

InitTrace == ScoreIdle /\ TokIdle /\ TrustIdle /\ GraphIdle /\ TraceInit /\ OthersIdle
NextTrace ==
    /\ \/ LookupCreator
       \/ CheckFactory
       \/ ProfileDeployer
       \/ FindSiblings
       \/ CheckSibling
       \/ DetectRedFlags
       \/ ScoreAndReturn
    /\ UNCHANGED <<scoreVars, tokVars, trustVars, graphVars, scanVars, anVars, orchVars>>
SpecTrace == InitTrace /\ [][NextTrace]_vars

InitScan == ScoreIdle /\ TokIdle /\ TrustIdle /\ TraceIdle /\ GraphIdle
                /\ ScanInit /\ AnalysisIdle /\ OrchIdle
NextScan == AnalyzeSourceCode
                /\ UNCHANGED <<scoreVars, tokVars, trustVars, traceVars, graphVars, anVars, orchVars>>
SpecScan == InitScan /\ [][NextScan]_vars

InitAnalysis == ScoreIdle /\ TokIdle /\ TrustIdle /\ TraceIdle /\ GraphIdle
                /\ ScanIdle /\ AnalysisInit /\ OrchIdle
NextAnalysis ==
    /\ \/ FetchSource
       \/ FetchBytecode
       \/ FetchTokenInfo
       \/ RunVulnerabilityScan
       \/ RunTokenomics
       \/ CalculateSafetyScores
       \/ QuickCreatorCheck
       \/ FinishAnalysis
    /\ UNCHANGED <<scoreVars, tokVars, trustVars, traceVars, graphVars, scanVars, orchVars>>
SpecAnalysis == InitAnalysis /\ [][NextAnalysis]_vars

InitOrch == ScoreIdle /\ TokIdle /\ TrustIdle /\ TraceIdle /\ GraphIdle
                /\ ScanIdle /\ AnalysisIdle /\ OrchInit
NextOrch ==
    /\ \/ Tick
       \/ TraceCreator
       \/ AnalyzeInteractions
    /\ UNCHANGED <<scoreVars, tokVars, trustVars, traceVars, graphVars, scanVars, anVars>>
SpecOrch == InitOrch /\ [][NextOrch]_vars

----------------------------------------------------------------------------
(* Properties *)

Clamp(x, lo, hi) == Max(lo, Min(hi, x))

\* C1: for every input to calculate_score, also one carrying a precomputed
\* 'score' in its code_quality or tokenomics section, code_quality_score is in
\* 0..25, security_score in 0..40, tokenomics_score in 0..20, liquidity_score in
\* 0..15, and overall_score is their sum clamped to 0..100.
C1_SubScoreRanges ==
    score_pc = "done" =>
        /\ scores.code_quality_score \in 0..25
        /\ scores.security_score \in 0..40
        /\ scores.tokenomics_score \in 0..20
        /\ scores.liquidity_score \in 0..15
        /\ scores.overall_score =
              Clamp(scores.code_quality_score + scores.security_score
                      + scores.tokenomics_score + scores.liquidity_score, 0, 100)

\* C2: for every deployer profile, sibling list and red-flag list the trust
\* score has wallet maturity in 0..20, deployment history in 0..30, sibling
\* survival in 0..25, funding transparency in 0..15, behavioural patterns in
\* 0..10, and an overall score equal to their sum clamped to 0..100.
C2_TrustScoreRanges ==
    trust_pc = "done" =>
        /\ trust_out.wallet_maturity_score \in 0..20
        /\ trust_out.deployment_history_score \in 0..30
        /\ trust_out.sibling_survival_score \in 0..25
        /\ trust_out.funding_transparency_score \in 0..15
        /\ trust_out.behavioral_patterns_score \in 0..10
        /\ trust_out.overall_score =
              Clamp(trust_out.wallet_maturity_score + trust_out.deployment_history_score
                      + trust_out.sibling_survival_score
                      + trust_out.funding_transparency_score
                      + trust_out.behavioral_patterns_score, 0, 100)

\* two red flags whose deductions exceed the 15 points: the floor at 0 acts
C2_Witness ==
    /\ trust_pc = "done"
    /\ Len(trust_in.red_flags) = 2
    /\ trust_in.red_flags[1].type = "mixer_funding"
    /\ trust_in.red_flags[2].type = "brand_new_wallet"
    /\ trust_out.funding_transparency_score = 0

\* the documented step function of the overall score
RiskTier(overall) ==
    CASE overall \in 85..100 -> "very_low"
      [] overall \in 70..84  -> "low"
      [] overall \in 50..69  -> "medium"
      [] overall \in 30..49  -> "high"
      [] OTHER               -> "critical"

TierRank(tier) ==
    CASE tier = "critical" -> 0
      [] tier = "high"     -> 1
      [] tier = "medium"   -> 2
      [] tier = "low"      -> 3
      [] tier = "very_low" -> 4

\* C3: the risk tier is a monotonic step function of the overall score (>= 85
\* very_low, >= 70 low, >= 50 medium, >= 30 high, else critical); for every
\* overall score in 0..100 SafetyScorer's tier and the creator trust score's
\* tier are that function's value, and the tier of a computed breakdown is the
\* function's value at its overall score.
C3_RiskTier ==
    /\ \A s \in 0..100 :
          /\ determine_risk_level(s) = RiskTier(s)
          /\ creator_risk_level(s) = RiskTier(s)
    /\ \A a \in 0..99 :
          TierRank(determine_risk_level(a)) <= TierRank(determine_risk_level(a + 1))
    /\ (score_pc = "done" /\ scores.overall_score \in 0..100) =>
          scores.risk_level = RiskTier(scores.overall_score)

\* a breakdown that sits exactly on the first breakpoint
C3_Witness ==
    /\ score_pc = "done"
    /\ scores.overall_score = 85
    /\ scores.risk_level = "very_low"

SeverityCount(vulnerabilities, severity) ==
    Cardinality({i \in 1..Len(vulnerabilities) : vulnerabilities[i].severity = severity})
HasType(vulnerabilities, type) ==
    \E i \in 1..Len(vulnerabilities) : vulnerabilities[i].type = type

\* max(0, 40 - severity deductions - 5 if reentrancy - 10 if honeypot_pattern)
ExpectedSecurity(vulnerabilities) ==
    Max(0, 40 - (15 * SeverityCount(vulnerabilities, "critical"))
              - (10 * SeverityCount(vulnerabilities, "high"))
              - (5 * SeverityCount(vulnerabilities, "medium"))
              - (2 * SeverityCount(vulnerabilities, "low"))
              - (IF HasType(vulnerabilities, "reentrancy") THEN 5 ELSE 0)
              - (IF HasType(vulnerabilities, "honeypot_pattern") THEN 10 ELSE 0))

\* C4 as stated: the security sub-score follows the deduction formula, is 40
\* for the empty list, 25 for any single critical signal, and a single high
\* reentrancy signal deducts 15.
C4_Original ==
    score_pc = "done" =>
        LET v == analysis_results.vulnerabilities
        IN  /\ scores.security_score = ExpectedSecurity(v)
            /\ (v = <<>>) => scores.security_score = 40
            /\ (Len(v) = 1 /\ v[1].severity = "critical") => scores.security_score = 25
            /\ (v = <<[type |-> "reentrancy", severity |-> "high"]>>) =>
                   scores.security_score = 40 - 15

\* C4: the security sub-score is max(0, 40 - per-signal deductions (critical
\* 15, high 10, medium 5, low 2) - 5 if any reentrancy signal - 10 if any
\* honeypot_pattern signal); 40 for the empty list; 25 for a single critical
\* signal whose type is neither reentrancy nor honeypot_pattern; a single high
\* reentrancy signal deducts 15.
C4_SecurityScore ==
    score_pc = "done" =>
        LET v == analysis_results.vulnerabilities
        IN  /\ scores.security_score = ExpectedSecurity(v)
            /\ (v = <<>>) => scores.security_score = 40
            /\ (Len(v) = 1 /\ v[1].severity = "critical"
                  /\ v[1].type \notin {"reentrancy", "honeypot_pattern"}) =>
                   scores.security_score = 25
            /\ (v = <<[type |-> "reentrancy", severity |-> "high"]>>) =>
                   scores.security_score = 40 - 15

C4_Witness ==
    /\ score_pc = "done"
    /\ analysis_results.vulnerabilities = <<[type |-> "tx_origin", severity |-> "critical"]>>
    /\ scores.security_score = 25

\* the score the documented formula gives a source text whose extracted fees are
\* `fees`
ExpectedTokenomics(source, fees) ==
    LET buy  == or_zero(fees.buy_fee)
        sell == or_zero(fees.sell_fee)
        high == Max(buy, sell)
        tier == IF high <= 500 THEN 5 ELSE IF high <= 1000 THEN 3
                ELSE IF high <= 1500 THEN 1 ELSE 0
    IN  Min(20, tier
                + (IF source.set_fee_function THEN 1 ELSE 3)
                + (IF source.blacklist THEN 0 ELSE 4)
                + (IF ~source.mint THEN 4 ELSE IF source.access_control THEN 2 ELSE 0)
                + (IF source.max_tx THEN 1 ELSE 2)
                + (IF source.pause THEN 0 ELSE 2))

FeeExample ==
    <<[name |-> "buyFee", value |-> 300], [name |-> "sellFee", value |-> 400]>>

Matching(txns, f, t) ==
    {i \in 1..Len(txns) : lower(txns[i].from) = f /\ lower(txns[i].to) = t}
ValueOf(txns, f, t) ==
    SumSeq([i \in 1..Len(txns) |-> IF i \in Matching(txns, f, t) THEN txns[i].value ELSE 0])
AllTxns == graph_in.normal_txns \o graph_in.internal_txns \o graph_in.token_txns
ExpectedKeys ==
    {<<lower(AllTxns[i].from), lower(AllTxns[i].to)>> :
        i \in {j \in 1..Len(AllTxns) : AllTxns[j].from # "" /\ AllTxns[j].to # ""}}

EdgesAsExpected ==
    /\ DOMAIN graph.edges = ExpectedKeys
    /\ \A k \in ExpectedKeys :
          /\ graph.edges[k].weight =
                Cardinality(Matching(graph_in.normal_txns, k[1], k[2]))
                  + Cardinality(Matching(graph_in.internal_txns, k[1], k[2]))
                  + Cardinality(Matching(graph_in.token_txns, k[1], k[2]))
          /\ graph.edges[k].value =
                ValueOf(graph_in.normal_txns, k[1], k[2])
                  + ValueOf(graph_in.internal_txns, k[1], k[2])
          /\ graph.edges[k].types =
                {st \in {"normal", "internal", "token"} :
                    Matching(CASE st = "normal"   -> graph_in.normal_txns
                               [] st = "internal" -> graph_in.internal_txns
                               [] st = "token"    -> graph_in.token_txns,
                             k[1], k[2]) # {}}

CountsNeverDecrease ==
    \A k \in DOMAIN build.edge_data :
        /\ k \in DOMAIN build'.edge_data
        /\ build'.edge_data[k].count >= build.edge_data[k].count

\* C6: after _build_graph every edge (from, to) of lowercase addresses has a
\* count equal to the number of transactions of the three streams with that
\* non-empty from and to, a total value equal to the sum of the values of its
\* normal and internal transactions only, and a type set equal to the streams
\* that contributed; while the graph is built no edge's count ever decreases.
C6_EdgeAccumulation ==
    /\ [](graph_pc \in {"detect", "done"} => EdgesAsExpected)
    /\ [][CountsNeverDecrease]_vars

\* one edge fed by all three streams
C6_Witness ==
    /\ graph_pc = "done"
    /\ <<"0xaa", "0xbb">> \in DOMAIN graph.edges
    /\ graph.edges[<<"0xaa", "0xbb">>].types = {"normal", "internal", "token"}
    /\ graph.edges[<<"0xaa", "0xbb">>].weight = 3
    /\ graph.edges[<<"0xaa", "0xbb">>].value < 3

\* relational composition
Compose(R, S) == {<<p[1][1], p[2][2]>> : p \in {q \in R \X S : q[1][2] = q[2][1]}}

\* the graph has a simple directed cycle of length 2..5.  A closed walk of
\* length k over edges that are not self-loops contains a simple cycle of
\* length 2..k, and a simple cycle of length k is such a walk.
HasShortCycle(g) ==
    LET R1 == {e \in DOMAIN g.edges : e[1] # e[2]}
        R2 == Compose(R1, R1)
        R3 == Compose(R2, R1)
        R4 == Compose(R3, R1)
        R5 == Compose(R4, R1)
    IN  \E w \in R2 \cup R3 \cup R4 \cup R5 : w[1] = w[2]

PatternTypes == {patterns[i].type : i \in 1..Len(patterns)}

\* C7: on a graph with at least 2 nodes circular_flow is reported iff the graph
\* has a simple directed cycle of length 2..5 (a self-loop or a longer cycle
\* alone does not count); the normal transactions A->B and B->A of value 1
\* give 2 nodes, 2 edges of count 1 each, and circular_flow.
C7_CircularFlow ==
    graph_pc = "done" =>
        /\ Cardinality(DOMAIN graph.nodes) >= 2 =>
              ("circular_flow" \in PatternTypes <=> HasShortCycle(graph))
        /\ (/\ graph_in.normal_txns = <<Tx("0xaa", "0xbb", 1), Tx("0xbb", "0xaa", 1)>>
            /\ graph_in.internal_txns = <<>> /\ graph_in.token_txns = <<>>)
              => /\ Cardinality(DOMAIN graph.nodes) = 2
                 /\ Cardinality(DOMAIN graph.edges) = 2
                 /\ \A k \in DOMAIN graph.edges : graph.edges[k].weight = 1
                 /\ "circular_flow" \in PatternTypes

\* the ring of six with a self-loop on it: cycles, but none of length 2..5
C7_Witness ==
    /\ graph_pc = "done"
    /\ {<<"0xaa", "0xbb">>, <<"0xbb", "0xcc">>, <<"0xcc", "0xdd">>, <<"0xdd", "0xee">>,
        <<"0xee", "0xff">>, <<"0xff", "0xaa">>, <<"0xbb", "0xbb">>} = DOMAIN graph.edges
    /\ "circular_flow" \notin PatternTypes

ExpectedEndpoints == {k[1] : k \in ExpectedKeys} \cup {k[2] : k \in ExpectedKeys}

\* C8 as stated: the node set is the edge end points plus the center, which is
\* a node flagged is_center whatever the transactions.
C8_Original ==
    graph_pc \in {"detect", "done"} =>
        /\ DOMAIN graph.nodes = ExpectedEndpoints \cup {lower(graph_in.center)}
        /\ graph.nodes[lower(graph_in.center)].is_center

\* C8: the node set is the union of the edge end points; the center is a node,
\* and then the one node flagged is_center, exactly when some edge ends at or
\* starts from it; a center without transactions gives a graph without nodes.
C8_NodeSet ==
    graph_pc \in {"detect", "done"} =>
        /\ DOMAIN graph.nodes = ExpectedEndpoints
        /\ \A n \in DOMAIN graph.nodes :
              graph.nodes[n].is_center <=> (n = lower(graph_in.center))
        /\ AllTxns = <<>> => DOMAIN graph.nodes = {}

\* a graph with nodes, none of them the center
C8_Witness ==
    /\ graph_pc = "done"
    /\ DOMAIN graph.nodes # {}
    /\ lower(graph_in.center) \notin DOMAIN graph.nodes

HealthChecks == Count(calls, LAMBDA c : c.fn = "get_token_info")

\* C9: when the creation lookup of the target returns no record the result is a
\* failure (success false, an error) without creator_trust_score, deployer or
\* sibling_contracts, and the lookup is the only provider call ever made.
C9_FailClosed ==
    world.creator = "none" =>
        /\ \A i \in 1..Len(calls) :
              i = 1 /\ calls[i] = Call("get_contract_creator", world.contract_address, 0)
        /\ trace_pc = "done" =>
              /\ trace_result.success = FALSE
              /\ "error" \in DOMAIN trace_result
              /\ DOMAIN trace_result
                   \cap {"creator_trust_score", "deployer", "sibling_contracts"} = {}
              /\ Len(calls) = 1

C9_Witness ==
    /\ trace_pc = "done"
    /\ world.creator = "none"
    /\ trace_result.success = FALSE
    /\ Len(calls) = 1

\* the creations in the deployer's history other than the target, in the
\* provider's order
ExpectedSiblings ==
    LET is_creation(tx) == /\ tx.to = "" /\ tx.contractAddress # ""
                           /\ lower(tx.contractAddress) # lower(world.contract_address)
    IN  Map(SelectSeq(world.history, is_creation), LAMBDA tx : tx.contractAddress)

\* C10: with n siblings found for the deployer, exactly min(n, 10) are
\* deep-checked, the first ones in the provider's order; the health check never
\* runs more than 10 times in a trace.
C10_DeepCheckCap ==
    /\ HealthChecks <= 10
    /\ (trace_pc = "score" \/ (trace_pc = "done" /\ trace_result.success)) =>
          LET n == Len(ExpectedSiblings)
          IN  /\ Len(trace.siblings) = n
              /\ HealthChecks = Min(n, 10)
              /\ Map(trace.checked_siblings, LAMBDA x : x.address)
                   = SubSeq(ExpectedSiblings, 1, Min(n, 10))
    /\ (trace_pc = "done" /\ trace_result.success) =>
          Len(trace_result.sibling_contracts) = Min(Len(ExpectedSiblings), 10)

\* more siblings than the cap
C10_Witness ==
    /\ trace_pc = "done"
    /\ Len(trace.siblings) > 10
    /\ Len(trace_result.sibling_contracts) = 10
    /\ HealthChecks = 10

----------------------------------------------------------------------------
(* Sibling survival sub-score *)

AliveIn(siblings) == Cardinality({i \in DOMAIN siblings : siblings[i].is_alive})
RemovalsIn(siblings) ==
    Cardinality({i \in DOMAIN siblings : siblings[i].had_liquidity_removal})

\* r is the rounding of num / den: the nearest integer, the even one of the
\* two when num / den lies exactly halfway
IsRounded(r, num, den) ==
    LET twice == 2 * (num - r * den)
        dist  == IF twice >= 0 THEN twice ELSE -twice
    IN  dist < den \/ (dist = den /\ r % 2 = 0)

ExpectedSurvival(siblings) ==
    IF siblings = <<>> THEN 15
    ELSE LET r == CHOOSE x \in 0..25 :
                      IsRounded(x, 25 * AliveIn(siblings), Len(siblings))
             cut == Min(15, 5 * RemovalsIn(siblings))
         IN  IF r - cut > 0 THEN r - cut ELSE 0

\* C11: the sibling survival sub-score is exactly 15 for an empty sibling
\* list; otherwise it is max(0, round(alive / total * 25) - min(15, 5 * number
\* of siblings with a liquidity removal))
C11_SiblingSurvival ==
    trust_pc = "done" =>
        trust_out.sibling_survival_score = ExpectedSurvival(trust_in.siblings)

\* one of two siblings alive (12.5 rounds to 12) and one liquidity removal
C11_Witness ==
    /\ trust_pc = "done"
    /\ Len(trust_in.siblings) = 2
    /\ AliveIn(trust_in.siblings) = 1
    /\ RemovalsIn(trust_in.siblings) = 1
    /\ trust_out.sibling_survival_score = 7

----------------------------------------------------------------------------
(* Contract analysis: error handling *)

\* the external calls of one analysis that failed
FailedCalls(c) ==
    {k \in {"source", "code", "token", "creator", "persona"} :
        CASE k = "source"  -> c.source_fetch = "failed"
          [] k = "code"    -> c.code = "failed"
          [] k = "token"   -> c.token = "failed"
          [] k = "creator" -> c.creator_check = "raises"
          [] k = "persona" -> c.persona = "failed"}

HasScores(r) == "scores" \in DOMAIN r /\ r.scores # None

\* C12: when exactly one external call of a contract analysis fails (the
\* target being a valid address that is not known to be without code), the
\* analysis is not aborted: it returns success with its scores.  A failed
\* bytecode fetch is one such call.
C12_SingleFailureContinues ==
    (/\ an_pc = "done"
     /\ chain.address_valid
     /\ chain.code # "empty"
     /\ Cardinality(FailedCalls(chain)) = 1)
    => (an_result.success /\ HasScores(an_result))

\* C13: when the target address has no code at all, analyze_contract returns a
\* failure result (success false, with an error) that carries no scores, no
\* sub-score and no risk tier, whether or not verified source was found
C13_NoCodeFails ==
    (an_pc = "done" /\ chain.address_valid /\ chain.code = "empty")
    => /\ ~an_result.success
       /\ DOMAIN an_result = {"success", "error", "contract_address", "blockchain"}
       /\ an_result.error = "No contract code found at this address"
       /\ ~HasScores(an_result)

\* verified source was found and scanned, and the address holds no code
C13_Witness ==
    /\ an_pc = "done"
    /\ chain.address_valid
    /\ chain.code = "empty"
    /\ base_analysis.is_verified
    /\ base_analysis.has_code = Some(FALSE)
    /\ ~an_result.success

SourceRuleTypes ==
    {"reentrancy", "unchecked_send", "delegatecall", "selfdestruct", "tx_origin",
     "missing_access_control", "unrestricted_pause"}

\* C14: when the source is unverified, the list of signals the security score
\* is computed from holds exactly one unverified_contract signal, of severity
\* high; no source pattern rule or structural check is applied and the
\* tokenomics analyzer is not run
C14_UnverifiedSignal ==
    (an_pc = "done" /\ an_result.success /\ an_result.source_code = None)
    => /\ Cardinality({i \in DOMAIN an_result.vulnerabilities :
                          an_result.vulnerabilities[i].type = "unverified_contract"}) = 1
       /\ \A i \in DOMAIN an_result.vulnerabilities :
             /\ an_result.vulnerabilities[i].type = "unverified_contract"
                   => an_result.vulnerabilities[i].severity = "high"
             /\ an_result.vulnerabilities[i].type \notin SourceRuleTypes
       /\ an_result.scores[1].security_score
             = calculate_security_score(scorer_input(an_result))
       /\ an_result.tokenomics = None
       /\ \A i \in DOMAIN an_calls :
             an_calls[i] \notin {"_analyze_source_code", "vulnerability_scanner.scan",
                                 "tokenomics_analyzer.analyze"}

\* the creator pre-check step leaves everything but creator_info as it was
PreCheckIsSideStep ==
    an_pc = "creator" =>
        /\ an_pc' = "finish"
        /\ an_result' = an_result
        /\ base_analysis'.scores = base_analysis.scores
        /\ [base_analysis' EXCEPT !.creator_info = None]
              = [base_analysis EXCEPT !.creator_info = None]

\* C15: in analyze_contract the scores (every sub-score, the overall score and
\* the risk tier) are the same whether the creator pre-check succeeds, returns
\* nothing or raises, and a raising pre-check never makes the analysis fail
C15_PreCheckFrame ==
    /\ [][PreCheckIsSideStep]_vars
    /\ []((an_pc = "done" /\ base_analysis.scores # None)
            => /\ an_result.success
               /\ an_result.scores = base_analysis.scores
               /\ an_result.scores =
                     Some(calculate_score(scorer_input(
                              [an_result EXCEPT !.creator_info = None]))))

\* a finished analysis whose pre-check raised
C15_Witness ==
    /\ an_pc = "done"
    /\ chain.creator_check = "raises"
    /\ an_result.success
    /\ HasScores(an_result)
    /\ an_result.creator_info = None

----------------------------------------------------------------------------
(* Signal scanner: determinism and order *)

\* position of a signal's rule in the rule table; the structural checks come
\* after the table
RuleRank(v) ==
    IF \E k \in DOMAIN scan_patterns : scan_patterns[k].type = v.type
    THEN CHOOSE k \in DOMAIN scan_patterns : scan_patterns[k].type = v.type
    ELSE Len(scan_patterns) + 1

InScanOrder(list) ==
    \A i, j \in DOMAIN list :
        i < j =>
            /\ RuleRank(list[i]) <= RuleRank(list[j])
            /\ (RuleRank(list[i]) = RuleRank(list[j]) /\ list[i].location # None)
                  => /\ list[j].location # None
                     /\ list[i].location[1] < list[j].location[1]

\* every match of a rule is reported once, at its own offset
OffsetsOfMatches(list, source_code) ==
    \A k \in DOMAIN scan_patterns :
        {list[i].location[1] : i \in {n \in DOMAIN list : list[n].type = scan_patterns[k].type}}
          = {start_of(source_code, i) :
                i \in {n \in DOMAIN source_code : source_code[n] = scan_patterns[k].pattern}}

----------------------------------------------------------------------------
(* Creator trace: factory indirection *)

CreationLookups ==
    Cardinality({i \in DOMAIN calls : calls[i].fn = "get_contract_creator"})

\* the provider reports bytecode at addr
AnswersCode(addr) == Len(get_contract_code(world, addr)) > 2

\* the factory's own creator is found and the provider reports no bytecode for it
FactoryCreatorIsEOA ==
    LET fc == get_contract_creator(world, DEPLOYER)
    IN  /\ fc # None
        /\ fc[1].deployer # ""
        /\ ~AnswersCode(fc[1].deployer)

PastFactoryStep ==
    \/ trace_pc \in {"profile", "siblings", "deep_check", "score"}
    \/ (trace_pc = "done" /\ trace_result.success)

\* C17: analyze_creator makes at most two creation lookups per trace; when the
\* resolved deployer has bytecode, the profiled address is the factory's own
\* creator (is_factory false) exactly when that creator is found and has no
\* bytecode, and otherwise the factory itself with is_factory true
C17_FactoryDepthOne ==
    /\ CreationLookups <= 2
    /\ PastFactoryStep =>
          IF AnswersCode(DEPLOYER)
          THEN IF FactoryCreatorIsEOA
               THEN /\ trace.deployer_address = get_contract_creator(world, DEPLOYER)[1].deployer
                    /\ ~trace.is_factory
               ELSE /\ trace.deployer_address = DEPLOYER
                    /\ trace.is_factory
          ELSE /\ trace.deployer_address = DEPLOYER
               /\ ~trace.is_factory
    /\ (trace_pc = "done" /\ trace_result.success) =>
          /\ trace_result.deployer[1].address = trace.deployer_address
          /\ trace_result.deployer[1].is_factory = trace.is_factory
          /\ trace_result.summary.deployer_is_factory = trace.is_factory

\* a factory deployed by an externally owned account: the second lookup is
\* made and its result profiled
C17_Witness ==
    /\ trace_pc = "done"
    /\ trace_result.success
    /\ world.creator = "contract"
    /\ CreationLookups = 2
    /\ trace_result.deployer[1].address = FACTORY_DEPLOYER
    /\ ~trace_result.summary.deployer_is_factory

----------------------------------------------------------------------------
(* Creator trace: pacing of explorer-backed calls *)

ExplorerBacked ==
    {"get_contract_creator", "get_transaction_history", "get_first_transactions"}

\* C18: between any two consecutive explorer-backed calls (creation lookup,
\* transaction-history fetch, first-transactions fetch) of one creator trace
\* the pacing delay occurs, on every path
C18_PacingDelay ==
    \A i, j \in DOMAIN calls :
        (/\ i < j
         /\ calls[i].fn \in ExplorerBacked
         /\ calls[j].fn \in ExplorerBacked
         /\ \A k \in (i + 1)..(j - 1) : calls[k].fn \notin ExplorerBacked)
        => \E k \in (i + 1)..(j - 1) : calls[k] = Sleep

----------------------------------------------------------------------------
(* Creator trace: sibling lifespan *)

\* timestamp of the sibling's last observed transaction, 0 when none is known
LastActivity(sibling_address) ==
    LET txs == get_transaction_history(world, sibling_address, 5)
    IN  IF txs = <<>> THEN 0 ELSE txs[1].timeStamp

\* C19: after the deep-check step every checked sibling whose creation
\* timestamp and last observed activity are both known has lifespan_days equal
\* to (last observed activity - creation timestamp) in whole days, the value
\* the deployment-history and behavioral sub-scores then read
C19_SiblingLifespan ==
    (trace_pc = "score" \/ (trace_pc = "done" /\ trace_result.success))
    => \A i \in DOMAIN trace.checked_siblings :
          LET s == trace.checked_siblings[i]
          IN  (/\ s.creation_ts # 0
               /\ LastActivity(s.address) # 0
               /\ LastActivity(s.address) >= s.creation_ts)
              => /\ s.has_lifespan
                 /\ s.lifespan_days = (LastActivity(s.address) - s.creation_ts) \div DAY

----------------------------------------------------------------------------
(* Behavioral sub-score *)

DrainSiblings(siblings) ==
    Cardinality({i \in DOMAIN siblings :
                    /\ siblings[i].had_liquidity_removal
                    /\ siblings[i].has_lifespan
                    /\ siblings[i].lifespan_days < 14})

\* three deployments, each less than 24 hours after the previous one
HasRapidRun(siblings) ==
    \E i, j, k \in DOMAIN siblings :
        /\ Cardinality({i, j, k}) = 3
        /\ siblings[i].creation_ts # 0
        /\ siblings[i].creation_ts <= siblings[j].creation_ts
        /\ siblings[j].creation_ts <= siblings[k].creation_ts
        /\ siblings[j].creation_ts - siblings[i].creation_ts < DAY
        /\ siblings[k].creation_ts - siblings[j].creation_ts < DAY

ExpectedBehavior(siblings) ==
    LET cut == Min(5, 2 * DrainSiblings(siblings))
                  + (IF HasRapidRun(siblings) THEN 5 ELSE 0)
    IN  IF 10 - cut > 0 THEN 10 - cut ELSE 0

\* C20: the behavioral sub-score starts at 10, loses 2 per sibling that has a
\* liquidity removal and a lifespan under 14 days (at most 5), loses a further 5
\* if at least 3 consecutive sibling deployments are less than 24 hours apart (a
\* run of three such deployments suffices), and is floored at 0
C20_Behavioral ==
    trust_pc = "done"
    => trust_out.behavioral_patterns_score = ExpectedBehavior(trust_in.siblings)

----------------------------------------------------------------------------
(* C21: funding red flags *)

\* the earliest transactions the explorer hands to the red-flag request
EarliestTen == SubSeq(world.first_txs, 1, Min(10, Len(world.first_txs)))

FlagCount(red_flags, type, severity) ==
    Cardinality({i \in 1..Len(red_flags) :
                    red_flags[i] = [type |-> type, severity |-> severity]})

WalletAgeSeconds == Now - EarliestTen[1].timeStamp

RedFlagsDetected == trace_pc \in {"score", "done"} /\ trace.creator_info # None

\* C21: once the red-flag step has run, a deployer without transactions has
\* exactly the one flag no_history/high and the step made a single provider
\* call; otherwise there is no no_history flag, brand_new_wallet/critical
\* appears exactly when the wallet is younger than a day, very_new_wallet/high
\* exactly when it is between one and seven days old, never both, and
\* mixer_funding/critical appears once when a sender among the earliest
\* transactions is in the mixer table and not at all otherwise.
C21_FundingRedFlags ==
    RedFlagsDetected =>
        LET red_flags == trace.red_flags
            brand_new == FlagCount(red_flags, "brand_new_wallet", "critical")
            very_new  == FlagCount(red_flags, "very_new_wallet", "high")
            mixer     == FlagCount(red_flags, "mixer_funding", "critical")
        IN  IF EarliestTen = <<>>
            THEN /\ red_flags = <<[type |-> "no_history", severity |-> "high"]>>
                 /\ Cardinality({i \in 1..Len(calls) :
                                    calls[i].fn = "get_first_transactions"
                                    /\ calls[i].n = 10}) = 1
            ELSE /\ brand_new = (IF WalletAgeSeconds < DAY THEN 1 ELSE 0)
                 /\ very_new = (IF WalletAgeSeconds >= DAY /\ WalletAgeSeconds < 7 * DAY
                                THEN 1 ELSE 0)
                 /\ brand_new + very_new <= 1
                 /\ mixer = (IF \E i \in 1..Len(EarliestTen) : EarliestTen[i].from \in mixers
                             THEN 1 ELSE 0)
                 /\ Len(red_flags) = brand_new + very_new + mixer

\* a wallet between one and seven days old that two mixer transfers funded
C21_Witness ==
    /\ trace_pc = "done"
    /\ trace_result.success
    /\ Len(EarliestTen) >= 2
    /\ WalletAgeSeconds >= DAY /\ WalletAgeSeconds < 7 * DAY
    /\ Cardinality({i \in 1..Len(EarliestTen) : EarliestTen[i].from \in mixers}) >= 1
    /\ trace.red_flags = <<[type |-> "very_new_wallet", severity |-> "high"],
                           [type |-> "mixer_funding", severity |-> "critical"]>>

----------------------------------------------------------------------------
(* C30: a mixer-funded profile carries the mixer red flag *)

\* `world.first_txs` is the one ascending list both requests are answered
\* from: the profile's with limit 3, the red-flag step's with limit 10.
ProfileSaysMixer ==
    /\ trace_result.deployer # None
    /\ trace_result.deployer[1].funding_source.is_mixer

\* C30: in a successful trace whose deployer profile reports
\* funding_source.is_mixer, the red-flag list holds a critical mixer_funding
\* flag and the funding-transparency component, which loses 15 of its 15
\* points to that flag, is 0.
C30_MixerProfileFlagged ==
    (trace_pc = "done" /\ trace_result.success /\ ProfileSaysMixer) =>
        /\ \E i \in 1..Len(trace_result.red_flags) :
               trace_result.red_flags[i] =
                   [type |-> "mixer_funding", severity |-> "critical"]
        /\ trace_result.creator_trust_score.funding_transparency_score = 0

\* the mixer's transfer is the second of the earliest transactions, after a
\* zero-value one from an ordinary sender
C30_Witness ==
    /\ trace_pc = "done"
    /\ trace_result.success
    /\ ProfileSaysMixer
    /\ Len(world.first_txs) >= 2
    /\ world.first_txs[1].from \notin mixers
    /\ world.first_txs[2].from \in mixers
    /\ trace_result.deployer[1].funding_source.address = world.first_txs[2].from

----------------------------------------------------------------------------
(* C22: a fresh cached record answers the request *)

FreshnessWindow(kind) == IF kind = "creator" THEN 6 ELSE 1

\* a record of the request's (address, chain) no older than the window
HasFreshRecord(rows, req, now) ==
    \E i \in 1..Len(rows) :
        /\ rows[i].contract_address = lower(req.contract_address)
        /\ rows[i].blockchain = req.blockchain
        /\ now - rows[i].analyzed_at <= FreshnessWindow(req.kind)

AnsweredFromCache(result) ==
    /\ "success" \in DOMAIN result /\ result.success
    /\ "cached" \in DOMAIN result /\ result.cached

\* one served request, seen as a step: the table of its own kind decides
CacheDecides ==
    (orch_n' = orch_n + 1 /\ orch_req'.inp.lookup_ok) =>
        LET req  == orch_req'
            rows == IF req.kind = "creator" THEN creator_rows ELSE interaction_rows
        IN  IF HasFreshRecord(rows, req, clock)
            THEN /\ AnsweredFromCache(orch_result')
                 /\ orch_events' = <<>>
                 /\ creator_rows' = creator_rows
                 /\ interaction_rows' = interaction_rows
            ELSE ~AnsweredFromCache(orch_result')

\* C22: every request that finds a record of its (address, chain) within its
\* kind's window (6 hours for the creator trace, 1 hour for the interaction
\* analysis) in its own table is answered from that record, starts no analyzer
\* run and no provider call and stores nothing; the other kind's table has no
\* say, and without such a record the answer is not a cached one.
C22_CacheSkips == [][CacheDecides]_vars

----------------------------------------------------------------------------
(* C27: analyze_interactions succeeds when its steps do *)

InteractionResultKeys ==
    {"stats", "top_senders", "top_receivers", "patterns", "risk_indicators", "graph_image"}

\* C27: an interactions request during which no step fails (the explorer's
\* three answers arrive, possibly empty, and the database answers) returns
\* success = TRUE together with stats, top senders and receivers, patterns,
\* risk indicators and the graph image.
C27_InteractionsSucceed ==
    (orch_req.kind = "interactions" /\ orch_req.inp.lookup_ok /\ orch_req.inp.save_ok) =>
        /\ orch_result.success
        /\ InteractionResultKeys \subseteq DOMAIN orch_result

----------------------------------------------------------------------------
(* C23: missing sections score 0 *)

\* C23: calculate_score returns a result for every analysis dict, and a
\* section that is missing from the dict scores 0: no tokenomics section gives
\* tokenomics_score 0, no liquidity section gives liquidity_score 0, and no
\* code-quality section (on a dict without is_verified) gives
\* code_quality_score 0.
C23_MissingSectionsScoreZero ==
    score_pc = "done" =>
        /\ DOMAIN scores = DOMAIN NoScores
        /\ ~analysis_results.tokenomics.present => scores.tokenomics_score = 0
        /\ ~analysis_results.liquidity.present => scores.liquidity_score = 0
        /\ (analysis_results.code_quality = EmptyCodeQuality
            /\ ~analysis_results.is_verified) => scores.code_quality_score = 0

----------------------------------------------------------------------------
(* C24: the max-transaction component *)

\* what the other five components of the score add up to (their maxima sum to
\* 18, so the cap at 20 never cuts)
OtherComponents(source, fees) ==
    ExpectedTokenomics(source, fees) - (IF source.max_tx THEN 1 ELSE 2)

MaxTxComponent(source) ==
    IF ~source.max_tx THEN 2
    ELSE IF ~source.set_max_function THEN 1
    ELSE 0

\* C24: in the score of every analyze() call the max-transaction component is
\* 2 when the source has no max-transaction limit, 1 when it has one without
\* an owner setter, and 0 when it has one together with a setMax function.
C24_MaxTxComponent ==
    [][tok_calls' = tok_calls + 1 =>
          tok_result'.score - OtherComponents(tok_source, tok_result'.fees)
              = MaxTxComponent(tok_source)]_vars

----------------------------------------------------------------------------
(* C28: calls on the shared TokenomicsAnalyzer do not leak into each other *)

NewInstance == [warnings |-> <<>>, red_flags |-> <<>>]

\* what the lists of the k-th returned result hold now
ReturnedLists(heap, returned, k) ==
    [warnings  |-> heap[returned[k].warnings],
     red_flags |-> heap[returned[k].red_flags]]

\* one analyze() call, seen as a step
CallIsIsolated ==
    tok_calls' = tok_calls + 1 =>
        LET alone == analyze(NewInstance, tok_source).result
        IN  /\ tok_result'.warnings = alone.warnings
            /\ tok_result'.red_flags = alone.red_flags
            /\ tok_result'.score = alone.score
            /\ ReturnedLists(tok_heap', tok_returned', tok_calls + 1) =
                   [warnings |-> alone.warnings, red_flags |-> alone.red_flags]
            /\ \A k \in 1..Len(tok_returned) :
                   ReturnedLists(tok_heap', tok_returned, k) = ReturnedLists(tok_heap, tok_returned, k)

\* C28: whatever calls came before on the shared instance, an analyze() call
\* returns the warnings, red_flags and score a new instance returns for the
\* same source text, and it leaves the warnings and red_flags lists of every
\* result returned earlier as they were.
C28_CallsIsolated == [][CallIsIsolated]_vars

\* a second call without findings after a first one that had some
C28_Witness ==
    /\ tok_calls = 2
    /\ ReturnedLists(tok_heap, tok_returned, 1).warnings # <<>>
    /\ ReturnedLists(tok_heap, tok_returned, 1).red_flags # <<>>
    /\ ReturnedLists(tok_heap, tok_returned, 2) = [warnings |-> <<>>, red_flags |-> <<>>]
    /\ tok_result.warnings = <<>>

----------------------------------------------------------------------------
(* C25: top counterparties *)

\* the edges on the center in one direction, as positions in discovery order
EdgesOnCenter(direction) ==
    {i \in 1..Len(graph.edge_order) :
        IF direction = "in" THEN graph.edge_order[i][2] = Center
        ELSE graph.edge_order[i][1] = Center}

\* the discovery position of the edge a returned counterparty stands for
EdgeOf(party, direction) ==
    CHOOSE i \in EdgesOnCenter(direction) :
        graph.edge_order[i] = (IF direction = "in" THEN <<party.address, Center>>
                               ELSE <<Center, party.address>>)

WeightAt(i) == graph.edges[graph.edge_order[i]].weight

IsTopK(list, direction, K) ==
    LET on     == EdgesOnCenter(direction)
        chosen == {EdgeOf(list[j], direction) : j \in 1..Len(list)}
    IN  /\ Len(list) = Min(K, Cardinality(on))
        /\ \A j \in 1..Len(list) :
              /\ \E i \in on : graph.edge_order[i] =
                     (IF direction = "in" THEN <<list[j].address, Center>>
                      ELSE <<Center, list[j].address>>)
              /\ list[j].transaction_count = WeightAt(EdgeOf(list[j], direction))
        /\ Cardinality(chosen) = Len(list)
        \* weight descending, ties in discovery order
        /\ \A j1, j2 \in 1..Len(list) :
              j1 < j2 =>
                 \/ list[j1].transaction_count > list[j2].transaction_count
                 \/ /\ list[j1].transaction_count = list[j2].transaction_count
                    /\ EdgeOf(list[j1], direction) < EdgeOf(list[j2], direction)
        \* nothing omitted outweighs anything returned
        /\ \A i \in on \ chosen : \A c \in chosen : WeightAt(i) <= WeightAt(c)

\* C25: top_senders and top_receivers hold at most 5 counterparties of the
\* center in their direction (all of them when there are at most 5), each with
\* its edge weight, ordered by weight descending with equal weights in
\* discovery order, and no omitted counterparty has a larger weight than a
\* returned one.
C25_TopCounterparties ==
    graph_pc = "done" =>
        /\ IsTopK(top.senders, "in", 5)
        /\ IsTopK(top.receivers, "out", 5)

\* seven senders, weights 1 and 2 alternating: the cut falls inside a tie
C25_Witness ==
    /\ graph_pc = "done"
    /\ Cardinality(EdgesOnCenter("in")) = 7
    /\ Len(top.senders) = 5
    /\ [j \in 1..5 |-> top.senders[j].address] = <<"0xcc", "0xee", "0x11", "0xbb", "0xdd">>
    /\ [j \in 1..5 |-> top.senders[j].transaction_count] = <<2, 2, 2, 1, 1>>

----------------------------------------------------------------------------
(* C26: large_bytecode *)

HasPrefix(bytecode) ==
    Len(bytecode.text) >= 2 /\ bytecode.text[1] = "0" /\ bytecode.text[2] = "x"

\* the number of bytes a hex string spells
ByteCount(bytecode) ==
    (code_len(bytecode) - (IF HasPrefix(bytecode) THEN 2 ELSE 0)) \div 2

BytecodeChecked == an_pc = "token"

FlagsLargeBytecode ==
    \E i \in 1..Len(base_analysis.vulnerabilities) :
        base_analysis.vulnerabilities[i] = Vuln("large_bytecode", "low", None)

\* C26: once the bytecode check has run, large_bytecode (low) is among the
\* signals exactly when the fetched bytecode is longer than 24,576 bytes;
\* bytecode of exactly 24,576 bytes does not raise it.
C26_LargeBytecode ==
    BytecodeChecked =>
        (FlagsLargeBytecode <=> ByteCount(fetch_contract_code(chain)) > 24576)


\* C29: in every successful run of analyze_contract the liquidity sub-score
\* is 0, so the overall score is at most 85, and the priority issues hold
\* the critical liquidity issue: no step of the pipeline supplies a
\* liquidity section.
C29_NoLiquiditySection ==
    (an_pc = "done" /\ an_result.success) =>
        /\ HasScores(an_result)
        /\ an_result.liquidity = None
        /\ an_result.scores[1].liquidity_score = 0
        /\ an_result.scores[1].overall_score <= 85
        /\ an_result.priority_issues # None
        /\ \E i \in 1..Len(an_result.priority_issues[1]) :
               an_result.priority_issues[1][i] = Issue("critical", "liquidity")

\* a verified contract with nothing else held against it finishes at 85 of
\* 100 with the liquidity issue as its only priority issue
C29_Witness ==
    /\ an_pc = "done"
    /\ an_result.success
    /\ HasScores(an_result)
    /\ an_result.is_verified
    /\ an_result.scores[1].liquidity_score = 0
    /\ an_result.scores[1].overall_score = 85
    /\ an_result.priority_issues = Some(<<Issue("critical", "liquidity")>>)

====
